---- MODULE Spec2Model ----
(***************************************************************************)
(* Verification model of wlcontrol's backend core (Rust).                  *)
(*                                                                         *)
(* The module holds several specifications over disjoint groups of         *)
(* variables, one per part of the program:                                 *)
(*   SpecWifiConnect  WifiBackend::connect, its spawned tasks and the      *)
(*                    pending_connect slot (src/backend/wifi_backend.rs)   *)
(*   SpecBluetooth    the Bluetooth half of the event loop: discovery and  *)
(*                    its 30 s deadline, device tracking                   *)
(*                    (src/backend/event_loop, src/backend/bluetooth)      *)
(*   SpecManager      the UI device model and the command and event        *)
(*                    channels (src/backend/manager.rs, src/ui)            *)
(*   SpecStation      the station set-up after a power-on and WifiScan     *)
(*                    (src/backend/event_loop/helpers.rs, state.rs)        *)
(* Each specification leaves the variables of the other groups unchanged.  *)
(***************************************************************************)
EXTENDS Integers, Sequences, FiniteSets, TLC

\* ------------------------------------------------------------------------
\* Bounds of the model
\* ------------------------------------------------------------------------

\* number of WifiBackend::connect calls explored
MaxConnects == 3

\* last instant, in seconds, the clock of the Bluetooth model reaches
MaxTime == 60

\* most per-device streams of one address kept in bt_device_events
MaxStreams == 2

\* most commands waiting in the command channel
MaxCommands == 2

\* most events waiting in the event channel
MaxEvents == 2

\* ------------------------------------------------------------------------
\* Shared vocabulary
\* ------------------------------------------------------------------------

\* Option::None
None == "None"

\* BackendEvent values as records
Ev(type, arg) == [type |-> type, arg |-> arg]

\* ------------------------------------------------------------------------
\* Strings.  A string is a sequence of fragments; concatenation is \o and
\* str::contains is a contiguous-subsequence test, so that "Failed" is found
\* inside "AuthenticationFailed" as it is in the program.
\* ------------------------------------------------------------------------

Contains(s, pat) ==
    \E i \in 1..(Len(s) - Len(pat) + 1) : SubSeq(s, i, i + Len(pat) - 1) = pat

\* zbus::Error as displayed by to_string(): "<error name>: <detail>"
IwdErr(name) == <<"net.connman.iwd.">> \o name \o <<": ", "detail">>

ErrAuthenticationFailed == IwdErr(<<"Authentication", "Failed">>)
ErrFailed               == IwdErr(<<"Failed">>)

\* the errors the daemon's Network.Connect call is answered with in the model
ConnectErrors == {ErrAuthenticationFailed, ErrFailed}

\* format_iwd_error with the generic "Failed" test moved to the front
format_iwd_error_FailedFirst(s) ==
    IF Contains(s, <<"Failed">>) THEN <<"Connection failed">>
    ELSE IF Contains(s, <<"Aborted">>) \/ Contains(s, <<"Canceled">>)
         THEN <<"Connection cancelled">>
    ELSE <<"Connection failed: ">> \o s

\* fn format_iwd_error(e: &zbus::Error) -> String
format_iwd_error(s) ==
    IF Contains(s, <<"Aborted">>) \/ Contains(s, <<"Canceled">>)
        THEN <<"Connection cancelled">>
    ELSE IF Contains(s, <<"InvalidFormat">>) \/ Contains(s, <<"InvalidArguments">>)
        THEN <<"Invalid password">>
    ELSE IF Contains(s, <<"Authentication", "Failed">>)
        THEN <<"Wrong password">>
    ELSE IF Contains(s, <<"NotConnected">>)
        THEN <<"Not connected">>
    ELSE IF Contains(s, <<"Busy">>)
        THEN <<"Device is busy, try again">>
    ELSE IF Contains(s, <<"NotFound">>)
        THEN <<"Network not found">>
    ELSE IF Contains(s, <<"NoAgent">>)
        THEN <<"No agent registered">>
    ELSE IF Contains(s, <<"Failed">>)
        THEN <<"Connection failed">>
    ELSE <<"Connection failed: ">> \o s


\* ------------------------------------------------------------------------
\* State
\* ------------------------------------------------------------------------

VARIABLES
    \* --- WifiBackend::connect (src/backend/wifi_backend.rs) ---
    device_path,      \* WifiBackend.device_path: None or the iwd device
    hasStation,       \* daemon: the device carries the Station interface
    daemonConnected,  \* daemon: Station.ConnectedNetwork (None = not connected)
    pending_connect,  \* WifiBackend.pending_connect: 0 = None, else the task whose AbortHandle it holds
    connPc,           \* position of the event loop inside WifiBackend::connect
    connPath,         \* argument of the connect call in progress
    nCalls,           \* number of tasks spawned so far (task ids are 1..nCalls)
    task,             \* the spawned connect tasks
    abortCount,       \* number of AbortHandle::abort calls made on each task's handle
    slotAccess        \* who locked pending_connect last: "init", "connect" or "task"

connectVars == <<device_path, hasStation, daemonConnected, pending_connect, connPc,
                 connPath, nCalls, task, abortCount, slotAccess>>

\* The Bluetooth half of the event loop (EventStreams, BackendState) and the
\* part of the BlueZ daemon it talks to
VARIABLES
    bt_discovery_stream,  \* EventStreams.bt_discovery_stream is Some
    bt_scan_deadline,     \* EventStreams.bt_scan_deadline: NoDeadline or an instant in seconds
    bt_adapter_events,    \* EventStreams.bt_adapter_events is Some
    bt_device_events,     \* EventStreams.bt_device_events: number of streams per address
    bt_tracked_devices,   \* BackendState.bt_tracked_devices
    now,                  \* tokio::time::Instant::now(), in seconds
    dev,                  \* daemon: what BlueZ reports about each address
    btPowered,            \* daemon: Adapter.Powered
    running,              \* the event loop has not returned LoopAction::Break
    handled,              \* the LoopEvent or BackendCommand handled last
    out,                  \* the BackendEvents the last handler sent
    scanStart,            \* instant at which the last discovery was started (NoDeadline: never)
    endedBy,              \* what dropped the stream of that discovery ("none": still running)
    stopEvents,           \* number of BtDiscovering(false) sent since that discovery started
    atPowerCall           \* the adapter.set_powered call of the last handler, if it made one:
                          \* its argument and what the core held when it was made

btVars == <<bt_discovery_stream, bt_scan_deadline, bt_adapter_events, bt_device_events,
            bt_tracked_devices, now, dev, btPowered, running, handled, out, scanStart,
            endedBy, stopEvents, atPowerCall>>

\* The UI device model (WlcontrolManager), the two channels between it and the
\* backend, and the BlueZ device behind them
VARIABLES
    bt_devices,   \* WlcontrolManager.bt_devices: the list store of BtDevice objects
    bt_discovering,  \* WlcontrolManager.bt_discovering
    uiHandled,    \* if the UI handled BtPowered last: the event and what the model held before
    cmd_rx,       \* BackendCommands sent by the UI and not yet handled by the backend
    evt_rx,       \* BackendEvents sent by the backend and not yet handled by the UI
    bluez         \* daemon: Adapter.Powered and the device's Paired and Connected

uiVars == <<bt_devices, bt_discovering, uiHandled, cmd_rx, evt_rx, bluez>>

\* The WiFi station set-up of the event loop after a power-on
VARIABLES
    stPc,             \* "idle", or "polling" inside the WifiPoweredChanged(true) handler
    attempt,          \* wait_for_station_proxy: the loop variable
    slept,            \* wait_for_station_proxy: milliseconds slept so far
    ifacePresent,     \* daemon: the device carries net.connman.iwd.Station
    powered_changed,  \* device_powered_stream holds an unhandled Powered = true
    scan_cmd,         \* the WifiScan command in the command queue, by when it was sent
    station_streams,  \* station_scanning_stream and station_state_stream are Some
    pollResult,       \* how wait_for_station_proxy returned: "none", "found", "gaveup"
    scanResult,       \* what WifiBackend::scan did with the last WifiScan
    scanSent,         \* when the WifiScan handled last had been sent
    stOut             \* the BackendEvents the last handler sent

stationVars == <<stPc, attempt, slept, ifacePresent, powered_changed, scan_cmd,
                 station_streams, pollResult, scanResult, scanSent, stOut>>

\* The UI WiFi model (WlcontrolManager): the two list stores and the two caches
VARIABLES
    wifi_networks,   \* WlcontrolManager.wifi_networks: the visible networks
    saved_networks,  \* WlcontrolManager.saved_networks: the saved networks out of range
    cached_known,    \* WlcontrolManager.cached_known: the last WifiKnownNetworks snapshot
    cached_visible,  \* WlcontrolManager.cached_visible: (name, type) pairs of the last scan
    wifi_last        \* the BackendEvent or UI request the WiFi model handled last

wifiListVars == <<wifi_networks, saved_networks, cached_known, cached_visible, wifi_last>>

\* One WifiNetwork object and one BtDevice object whose canonical state is asked for
VARIABLES
    network,     \* the WifiNetwork: its six flags
    btdev,       \* the BtDevice: its five flags
    wifi_state,  \* None, or what WifiNetwork::state returned
    bt_state     \* None, or what BtDevice::state returned

stateVars == <<network, btdev, wifi_state, bt_state>>

\* The password agent and the pairing agent, their request queues and the
\* reply slots of BackendState
VARIABLES
    call,                         \* the agent callbacks the daemons have invoked, by number
    passphrase_rx,                \* EventStreams.passphrase_rx: requests not yet taken by the loop
    bt_pairing_rx,                \* EventStreams.bt_pairing_rx: requests not yet taken by the loop
    pending_passphrase_response,  \* BackendState: 0 = None, else the call whose sender it holds
    pending_pairing_response,     \* BackendState: likewise, ConfirmPasskey and RequestAuthorization
    pending_pin_response,         \* BackendState: likewise, RequestPinCode
    pending_passkey_response,     \* BackendState: likewise, RequestPasskey
    agOut,                        \* BackendEvents sent for agent requests
    loopAction,                   \* the LoopAction the last handler returned
    agent_notify                  \* what the last cancel or release callback returned

agentVars == <<call, passphrase_rx, bt_pairing_rx, pending_passphrase_response,
               pending_pairing_response, pending_pin_response, pending_passkey_response,
               agOut, loopAction, agent_notify>>

\* The wireless devices of iwd and the adapter selection of the core
VARIABLES
    iwd_objects,              \* iwd: the Device objects that exist, first-discovered first
    iwd_seen,                 \* iwd: every device path it has ever exported
    iwd_interfaces_added,     \* EventStreams: InterfacesAdded signals not yet handled
    iwd_interfaces_removed,   \* EventStreams: InterfacesRemoved signals not yet handled
    switch_rx,                \* WifiSwitchAdapter commands in cmd_rx, not yet handled
    wifi,                     \* BackendState.wifi: 0 = None, else the device path of the backend
    wifi_device_infos,        \* BackendState.wifi_device_infos
    device_powered_stream,    \* EventStreams: 0 = None, else the device it listens to
    station_scanning_stream,  \* EventStreams: likewise
    station_state_stream,     \* EventStreams: likewise
    adapter_evt,              \* BackendEvents sent by the handler that ran last
    reported,                 \* device paths the UI has been told of in WifiDevices events
    adapter_handled           \* the loop event handled last and what the handler saw

adapterVars == <<iwd_objects, iwd_seen, iwd_interfaces_added, iwd_interfaces_removed,
                 switch_rx, wifi, wifi_device_infos, device_powered_stream,
                 station_scanning_stream, station_state_stream, adapter_evt, reported,
                 adapter_handled>>

\* What handle_event returns
VARIABLES
    backends,     \* BackendState.wifi and BackendState.bt are Some
    loop_event,   \* the LoopEvent handled last and what its handler met
    loop_action   \* what handle_event returned for it: Continue, Break, or Panic

dispatchVars == <<backends, loop_event, loop_action>>

\* Daemon connect and pair calls in flight
VARIABLES
    flight,    \* each call: "idle", "running", "waits_agent" (the daemon has asked its agent), "returned"
    request,   \* the agent request of each call: "none", "queued", "taken", "responded", "answered"
    loop_pc    \* "select": the loop is in next_event; else the command whose handler it is inside

flightVars == <<flight, request, loop_pc>>

\* The sources of EventStreams and the loop around next_event
VARIABLES
    pending_items,  \* per source of EventStreams: the items ready and not yet taken
    select_pc,      \* "select" (in next_event), "handle_event", "device.connect", "Break", "Panic"
    select_event,   \* the LoopEvent next_event returned last: its source and its kind
    consumed        \* the source whose item the loop finished last, "none" while it works on one

selectVars == <<pending_items, select_pc, select_event, consumed>>

\* Startup: what init finds and what it leaves to the loop
VARIABLES
    world,         \* the daemons, adapters and agent managers init finds
    init_pc,       \* "start", "Ok" / "Err" (what init returned), "loop", "Panic"
    state_wifi,    \* BackendState.wifi: 0 = None, else the device of the backend
    state_bt,      \* BackendState.bt: "None", "no_adapter" (Some, adapter: None), "adapter"
    live_sources,  \* the fields of EventStreams that hold a stream, a receiver or a deadline
    startup_evt,   \* the BackendEvents sent to the UI up to the first loop turn
    last_turn      \* the last loop turn: what was handled, on which state, with which effect

initVars == <<world, init_pc, state_wifi, state_bt, live_sources, startup_evt, last_turn>>

\* Failed WiFi daemon operations
VARIABLES
    wifi_op,        \* the WifiBackend operation whose daemon call failed last, "none" before
    wifi_op_error,  \* the zbus::Error of that call, as displayed
    wifi_op_evt     \* the BackendEvent the operation sent for it

wifiErrorVars == <<wifi_op, wifi_op_error, wifi_op_evt>>

vars == <<connectVars, btVars, uiVars, stationVars, wifiListVars, stateVars, agentVars, adapterVars, dispatchVars, flightVars, selectVars, initVars, wifiErrorVars>>

\* variables a step of the connect machine leaves alone
notConnectVars == <<btVars, uiVars, stationVars, wifiListVars, stateVars, agentVars, adapterVars, dispatchVars, flightVars, selectVars, initVars, wifiErrorVars>>

\* variables a step of the Bluetooth half leaves alone
notBtVars == <<connectVars, uiVars, stationVars, wifiListVars, stateVars, agentVars, adapterVars, dispatchVars, flightVars, selectVars, initVars, wifiErrorVars>>

\* variables a step of the UI device model leaves alone
notUiVars == <<connectVars, btVars, stationVars, wifiListVars, stateVars, agentVars, adapterVars, dispatchVars, flightVars, selectVars, initVars, wifiErrorVars>>

\* variables a step of the station set-up leaves alone
notStationVars == <<connectVars, btVars, uiVars, wifiListVars, stateVars, agentVars, adapterVars, dispatchVars, flightVars, selectVars, initVars, wifiErrorVars>>

\* variables a call of WifiNetwork::state or BtDevice::state leaves alone
notStateVars == <<connectVars, btVars, uiVars, stationVars, wifiListVars, agentVars, adapterVars, dispatchVars, flightVars, selectVars, initVars, wifiErrorVars>>

\* variables a step of the UI WiFi model leaves alone
notWifiListVars == <<connectVars, btVars, uiVars, stationVars, stateVars, agentVars, adapterVars, dispatchVars, flightVars, selectVars, initVars, wifiErrorVars>>

\* variables a step of the agents and their reply slots leaves alone
notAgentVars == <<connectVars, btVars, uiVars, stationVars, wifiListVars, stateVars, adapterVars, dispatchVars, flightVars, selectVars, initVars, wifiErrorVars>>

\* variables a step of the adapter selection leaves alone
notAdapterVars == <<connectVars, btVars, uiVars, stationVars, wifiListVars, stateVars, agentVars, dispatchVars, flightVars, selectVars, initVars, wifiErrorVars>>

\* variables a turn of the dispatch leaves alone
notDispatchVars == <<connectVars, btVars, uiVars, stationVars, wifiListVars, stateVars, agentVars, adapterVars, flightVars, selectVars, initVars, wifiErrorVars>>

\* variables a step of a call in flight leaves alone
notFlightVars == <<connectVars, btVars, uiVars, stationVars, wifiListVars, stateVars, agentVars, adapterVars, dispatchVars, selectVars, initVars, wifiErrorVars>>

\* variables a step of the select loop leaves alone
notSelectVars == <<connectVars, btVars, uiVars, stationVars, wifiListVars, stateVars, agentVars, adapterVars, dispatchVars, flightVars, initVars, wifiErrorVars>>

\* variables a step of startup leaves alone
notInitVars == <<connectVars, btVars, uiVars, stationVars, wifiListVars, stateVars, agentVars, adapterVars, dispatchVars, flightVars, selectVars, wifiErrorVars>>

\* variables a failed WiFi operation leaves alone
notWifiErrorVars == <<connectVars, btVars, uiVars, stationVars, wifiListVars, stateVars, agentVars, adapterVars, dispatchVars, flightVars, selectVars, initVars>>

\* the UI WiFi model before any event: WlcontrolManager::default
WifiListIdle ==
    /\ wifi_networks = <<>> /\ saved_networks = <<>>
    /\ cached_known = <<>> /\ cached_visible = {}
    /\ wifi_last = "none"

\* both objects as glib::Object::new leaves them, no state asked for
StateIdle ==
    /\ network = [forgetting |-> FALSE, disconnecting |-> FALSE, connecting |-> FALSE,
                  connected |-> FALSE, known |-> FALSE, offline |-> FALSE]
    /\ btdev = [removing |-> FALSE, disconnecting |-> FALSE, connecting |-> FALSE,
                connected |-> FALSE, paired |-> FALSE]
    /\ wifi_state = "none" /\ bt_state = "none"

\* no agent callback invoked yet, the loop running with empty slots
AgentIdle ==
    /\ call = <<>> /\ passphrase_rx = <<>> /\ bt_pairing_rx = <<>>
    /\ pending_passphrase_response = 0 /\ pending_pairing_response = 0
    /\ pending_pin_response = 0 /\ pending_passkey_response = 0
    /\ agOut = <<>> /\ loopAction = "Continue" /\ agent_notify = <<"none">>

\* no wireless device, no adapter selected, nothing handled
AdapterIdle ==
    /\ iwd_objects = <<>> /\ iwd_seen = {} /\ iwd_interfaces_added = <<>>
    /\ iwd_interfaces_removed = <<>> /\ switch_rx = <<>> /\ wifi = 0
    /\ wifi_device_infos = <<>> /\ device_powered_stream = 0
    /\ station_scanning_stream = 0 /\ station_state_stream = 0
    /\ adapter_evt = <<>> /\ reported = {}
    /\ adapter_handled = [event |-> "none", object_path |-> 0, active_removed |-> FALSE]

\* no backend, nothing handled
DispatchIdle ==
    /\ backends = [wifi |-> FALSE, bt |-> FALSE]
    /\ loop_event = [event |-> "none", cmd |-> None, arg_valid |-> TRUE, call_ok |-> TRUE]
    /\ loop_action = "Continue"

\* no call in flight
FlightIdle ==
    /\ flight = [k \in {"WifiConnect", "BtConnect", "BtPair"} |-> "idle"]
    /\ request = [k \in {"WifiConnect", "BtConnect", "BtPair"} |-> "none"]
    /\ loop_pc = "select"

\* nothing ready, the loop in next_event
SelectIdle ==
    /\ pending_items = [s \in {"bt_scan_deadline", "passphrase_rx", "bt_discovery_stream",
                                "bt_adapter_events", "bt_device_events", "bt_pairing_rx", "cmd_rx",
                                "device_powered_stream", "station_scanning_stream",
                                "station_state_stream", "iwd_interfaces_added",
                                "iwd_interfaces_removed"} |-> 0]
    /\ select_pc = "select"
    /\ select_event = [source |-> "none", kind |-> "none"]
    /\ consumed = "none"

\* init has not been called
InitIdle ==
    /\ world = [dbus |-> TRUE, iwd |-> TRUE, devices |-> 0, iwd_agent |-> "registered",
                bluez |-> TRUE, bt_agent |-> TRUE, bt_adapter |-> TRUE]
    /\ init_pc = "start"
    /\ state_wifi = 0
    /\ state_bt = "None"
    /\ live_sources = {}
    /\ startup_evt = <<>>
    /\ last_turn = [kind |-> "none", name |-> "none", wifi_none |-> TRUE, bt_off |-> TRUE,
                    daemon_call |-> FALSE, state_changed |-> FALSE]

\* no WiFi operation has failed
WifiErrorsIdle ==
    /\ wifi_op = "none"
    /\ wifi_op_error = <<>>
    /\ wifi_op_evt = [type |-> "none", arg |-> <<>>]

\* ------------------------------------------------------------------------
\* Bluetooth vocabulary
\* ------------------------------------------------------------------------

\* bluer::Address values
Addr1 == "AA:AA:AA:AA:AA:01"
Addrs == {Addr1}

\* what the daemon reports about an address: a paired device, an unpaired
\* device with a name, or an unpaired device with no name whose alias is its
\* address (advertisement noise)
DevStates == {"paired", "unpaired", "noise"}

\* Option<tokio::time::Instant>::None
NoDeadline == -1

\* the Bluetooth half before the event loop is started
BtIdle ==
    /\ bt_discovery_stream = FALSE /\ bt_scan_deadline = NoDeadline
    /\ bt_adapter_events = FALSE
    /\ bt_device_events = [a \in Addrs |-> 0]
    /\ bt_tracked_devices = {}
    /\ now = 0
    /\ dev = [a \in Addrs |-> "unpaired"]
    /\ btPowered = FALSE /\ running = FALSE
    /\ handled = "none" /\ out = <<>>
    /\ scanStart = NoDeadline /\ endedBy = "none" /\ stopEvents = 0
    /\ atPowerCall = <<>>

\* the UI device model before the first event
UiIdle ==
    /\ bt_devices = <<>> /\ cmd_rx = <<>> /\ evt_rx = <<>>
    /\ bt_discovering = FALSE /\ uiHandled = <<>>
    /\ bluez = [powered |-> FALSE, paired |-> FALSE, connected |-> FALSE]

\* the station set-up before the first power-on
StationIdle ==
    /\ stPc = "idle" /\ attempt = 0 /\ slept = 0
    /\ ifacePresent = FALSE /\ powered_changed = FALSE /\ scan_cmd = "none"
    /\ station_streams = FALSE
    /\ pollResult = "none" /\ scanResult = "none" /\ scanSent = "none" /\ stOut = <<>>

\* ------------------------------------------------------------------------
\* WifiBackend::connect and the task it spawns
\* ------------------------------------------------------------------------

TaskIds == 1..MaxConnects

Device == "/net/connman/iwd/0/3"

NetA == "/net/connman/iwd/0/3/a_psk"
NetB == "/net/connman/iwd/0/3/b_psk"
\* a string that is no D-Bus object path
BadPath == "not a path"

ValidPaths   == {NetA, NetB}
ConnectPaths == {NetA, BadPath}

NoTask == [pc |-> "none", path |-> None, aborted |-> FALSE, events |-> <<>>,
           outcome |-> "", err |-> <<>>, queried |-> "noquery", actual |-> None]

Finished(t) == task[t].pc \in {"done", "cancelled"}
Spawned(t)  == task[t].pc # "none"
\* a task that is neither finished nor aborted
Live(t)     == Spawned(t) /\ ~Finished(t) /\ ~task[t].aborted

\* path.try_into::<OwnedObjectPath>() in create_network_proxy
ValidPath(p) == p \in ValidPaths

\* async fn get_connected_network_static(conn, device_path) -> Option<String>
get_connected_network_static(dp, station, connected) ==
    IF dp = None THEN None
    ELSE IF ~station THEN None
    ELSE connected

\* The task is modelled poll by poll: a step runs the task from the await it
\* was parked in to the next await that parks (the daemon's Connect call, the
\* D-Bus query of the connected network) or to the lock on pending_connect,
\* where it synchronises with WifiBackend::connect.  The sends on the event
\* queue in between do not park.

\* the awaits a task is parked in until an answer arrives
Parked(r) == r.pc \in {"spawned", "call", "query"}

\* what is kept of a task once it has cleared the slot or was dropped
Returned(how) == [NoTask EXCEPT !.pc = how]

\* AbortHandle::abort: nothing on a finished task; a parked task is dropped
\* without being polled again; a task that is being polled runs on until its
\* poll returns
abort(r) ==
    IF r.pc \in {"done", "cancelled"} THEN r
    ELSE IF Parked(r) THEN Returned("cancelled")
    ELSE [r EXCEPT !.aborted = TRUE]

WifiConnectInit ==
    /\ device_path \in {None, Device}
    /\ hasStation \in BOOLEAN
    /\ (device_path = None => ~hasStation)
    /\ daemonConnected \in (IF hasStation THEN {None, NetB} ELSE {None})
    /\ pending_connect = 0
    /\ connPc = "idle"
    /\ connPath = None
    /\ nCalls = 0
    /\ task = [t \in TaskIds |-> NoTask]
    /\ abortCount = [t \in TaskIds |-> 0]
    /\ slotAccess = "init"

\* connect, lines 239-246: lock, take the previous handle, abort it, unlock
ConnectTakeAbort(p) ==
    /\ connPc = "idle"
    /\ nCalls < MaxConnects
    /\ connPc' = "spawn"
    /\ connPath' = p
    /\ pending_connect' = 0
    /\ slotAccess' = "connect"
    /\ IF pending_connect # 0
       THEN /\ abortCount' = [abortCount EXCEPT ![pending_connect] = @ + 1]
            /\ task' = [task EXCEPT ![pending_connect] = abort(task[pending_connect])]
       ELSE UNCHANGED <<abortCount, task>>
    /\ UNCHANGED <<device_path, hasStation, daemonConnected, nCalls>>
    /\ UNCHANGED notConnectVars

\* connect, lines 248-255: tokio::spawn of the connect task
ConnectSpawn ==
    /\ connPc = "spawn"
    /\ nCalls' = nCalls + 1
    /\ task' = [task EXCEPT ![nCalls + 1] = [NoTask EXCEPT !.pc = "spawned", !.path = connPath]]
    /\ connPc' = "store"
    /\ UNCHANGED <<device_path, hasStation, daemonConnected, pending_connect, connPath,
                   abortCount, slotAccess>>
    /\ UNCHANGED notConnectVars

\* connect, lines 297-299: lock, store the new task's abort handle
ConnectStore ==
    /\ connPc = "store"
    /\ pending_connect' = nCalls
    /\ slotAccess' = "connect"
    /\ connPc' = "idle"
    /\ UNCHANGED <<device_path, hasStation, daemonConnected, connPath, nCalls, task, abortCount>>
    /\ UNCHANGED notConnectVars

TaskFrame == UNCHANGED <<device_path, hasStation, connPc, connPath, nCalls, abortCount>>

\* the failure report of the task, lines 280-282 and 286-288
FailureReport(r, queried) ==
    [r EXCEPT !.queried = queried,
              !.actual = daemonConnected,
              !.events = @ \o <<Ev("WifiConnected", queried),
                                Ev("Error", IF r.outcome = "err" THEN format_iwd_error(r.err)
                                            ELSE <<"Connection timed out">>)>>,
              !.pc = "clear"]

\* task, lines 256-266 and the call of line 271: send WifiConnecting, then
\* create_network_proxy; it fails on a string that is no object path and may
\* fail on a D-Bus error, and the task then reports and returns
TaskStart(t, buildOk) ==
    /\ task[t].pc = "spawned"
    /\ task' = [task EXCEPT ![t] =
                   IF ValidPath(task[t].path) /\ buildOk
                   THEN [@ EXCEPT !.events = <<Ev("WifiConnecting", task[t].path)>>,
                                  !.pc = "call"]
                   ELSE [@ EXCEPT !.events = <<Ev("WifiConnecting", task[t].path),
                                               Ev("WifiConnected", None),
                                               Ev("Error", <<"Invalid network path">>)>>,
                                  !.outcome = "proxy",
                                  !.actual = daemonConnected,
                                  !.pc = "done"]]
    /\ TaskFrame /\ UNCHANGED <<daemonConnected, pending_connect, slotAccess>>
    /\ UNCHANGED notConnectVars

\* the success report with the two events the other way round
SuccessReport_KnownFirst(path) == <<Ev("WifiNetworkKnown", path), Ev("WifiConnected", path)>>

\* the success report of the task, lines 273-275
SuccessReport(path) == <<Ev("WifiConnected", path), Ev("WifiNetworkKnown", path)>>

\* task, lines 271-290: timeout(60 s, network.connect()) resolves with
\* Ok(Ok(())), Ok(Err(e)) or Err(elapsed)
DaemonReply(t, outcome, e) ==
    /\ task[t].pc = "call"
    /\ outcome = "ok" => hasStation
    /\ e # <<>> <=> outcome = "err"
    /\ LET r == [task[t] EXCEPT !.outcome = outcome, !.err = e] IN
       task' = [task EXCEPT ![t] =
                   IF outcome = "ok"
                   THEN [r EXCEPT !.events = @ \o SuccessReport(r.path),
                                  !.pc = "clear"]
                   ELSE IF device_path = None
                   THEN FailureReport(r, get_connected_network_static(
                                             device_path, hasStation, daemonConnected))
                   ELSE [r EXCEPT !.pc = "query"]]
    /\ daemonConnected' = IF outcome = "ok" THEN task[t].path ELSE daemonConnected
    /\ TaskFrame /\ UNCHANGED <<pending_connect, slotAccess>>
    /\ UNCHANGED notConnectVars

\* task, lines 280-282 and 286-288: get_connected_network_static answers
TaskQueryAnswer(t) ==
    /\ task[t].pc = "query"
    /\ task' = [task EXCEPT ![t] = FailureReport(@, get_connected_network_static(
                                                        device_path, hasStation, daemonConnected))]
    /\ TaskFrame /\ UNCHANGED <<daemonConnected, pending_connect, slotAccess>>
    /\ UNCHANGED notConnectVars

\* task, lines 292-294: lock pending_connect and set it to None
TaskClear(t) ==
    /\ task[t].pc = "clear"
    /\ pending_connect' = 0
    /\ slotAccess' = "task"
    /\ task' = [task EXCEPT ![t] = Returned("done")]
    /\ TaskFrame /\ UNCHANGED <<daemonConnected>>
    /\ UNCHANGED notConnectVars

\* tokio: an aborted task whose poll returns Pending at the lock (the mutex is
\* held by WifiBackend::connect) is dropped there
TaskCancel(t) ==
    /\ task[t].pc = "clear"
    /\ task[t].aborted
    /\ task' = [task EXCEPT ![t] = Returned("cancelled")]
    /\ TaskFrame /\ UNCHANGED <<daemonConnected, pending_connect, slotAccess>>
    /\ UNCHANGED notConnectVars

\* handle_command(Shutdown): WifiBackend::shutdown, lines 416-423, takes the
\* handle out of the slot with try_lock and aborts it; the handler then
\* returns Break and no further command is handled
WifiBackend_shutdown ==
    /\ connPc = "idle"
    /\ connPc' = "stopped"
    /\ pending_connect' = 0
    /\ slotAccess' = "shutdown"
    /\ IF pending_connect # 0
       THEN /\ abortCount' = [abortCount EXCEPT ![pending_connect] = @ + 1]
            /\ task' = [task EXCEPT ![pending_connect] = abort(task[pending_connect])]
       ELSE UNCHANGED <<abortCount, task>>
    /\ UNCHANGED <<device_path, hasStation, daemonConnected, connPath, nCalls>>
    /\ UNCHANGED notConnectVars

\* the daemon connects or disconnects on its own (roaming, link loss)
DaemonChangesConnection(n) ==
    /\ hasStation
    /\ n # daemonConnected
    /\ connPc = "idle"
    /\ daemonConnected' = n
    /\ UNCHANGED <<device_path, hasStation, pending_connect, connPc, connPath, nCalls,
                   task, abortCount, slotAccess>>
    /\ UNCHANGED notConnectVars

WifiConnectNext ==
    \/ \E p \in ConnectPaths : ConnectTakeAbort(p)
    \/ ConnectSpawn
    \/ ConnectStore
    \/ \E t \in TaskIds, ok \in BOOLEAN : TaskStart(t, ok)
    \/ \E t \in TaskIds : DaemonReply(t, "ok", <<>>)
    \/ \E t \in TaskIds, e \in ConnectErrors : DaemonReply(t, "err", e)
    \/ \E t \in TaskIds : DaemonReply(t, "timeout", <<>>)
    \/ \E t \in TaskIds : TaskQueryAnswer(t)
    \/ \E t \in TaskIds : TaskClear(t)
    \/ \E t \in TaskIds : TaskCancel(t)
    \/ \E n \in {None, NetB} : DaemonChangesConnection(n)
    \/ WifiBackend_shutdown

\* the connect machine before the first WifiConnect command
ConnectIdle ==
    /\ device_path = None /\ hasStation = FALSE /\ daemonConnected = None
    /\ pending_connect = 0 /\ connPc = "idle" /\ connPath = None /\ nCalls = 0
    /\ task = [t \in TaskIds |-> NoTask]
    /\ abortCount = [t \in TaskIds |-> 0]
    /\ slotAccess = "init"

\* WifiBackend::new, with the Bluetooth half not started
WifiConnectStart == WifiConnectInit /\ BtIdle /\ UiIdle /\ StationIdle /\ WifiListIdle /\ StateIdle /\ AgentIdle /\ AdapterIdle /\ DispatchIdle /\ FlightIdle /\ SelectIdle /\ InitIdle /\ WifiErrorsIdle

SpecWifiConnect == WifiConnectStart /\ [][WifiConnectNext]_vars


\* ------------------------------------------------------------------------
\* Claims about WifiBackend::connect (SpecWifiConnect)
\* ------------------------------------------------------------------------

\* C1: each previous attempt's handle is aborted at most once, once
\* take-and-abort has run no earlier attempt is left un-aborted and unfinished,
\* and at every instant at most one spawned connect task is both un-aborted
\* and unfinished.
C1_SingleFlight ==
    /\ \A t \in TaskIds : abortCount[t] <= 1
    /\ connPc = "spawn" => \A t \in TaskIds : ~Live(t)
    /\ Cardinality({t \in TaskIds : Live(t)}) <= 1

\* C2: between take-and-abort and the installation of the new handle nobody
\* but the connect call itself locks pending_connect.
C2_OneCriticalSection ==
    [][(connPc \in {"spawn", "store"} /\ slotAccess' # slotAccess) => connPc' = "idle"]_vars

AuthenticationFailedAttempt(t) ==
    /\ task[t].pc = "clear"
    /\ task[t].outcome = "err"
    /\ Contains(task[t].err, <<"Authentication", "Failed">>)

\* C7: an attempt whose daemon call failed with an AuthenticationFailed error
\* has sent WifiConnecting(path), then WifiConnected carrying the network the
\* daemon reported as connected when asked, then Error("Wrong password").
C7_AuthenticationFailedReport ==
    \A t \in TaskIds :
        AuthenticationFailedAttempt(t) =>
            task[t].events = <<Ev("WifiConnecting", task[t].path),
                               Ev("WifiConnected", task[t].actual),
                               Ev("Error", <<"Wrong password">>)>>

\* C7 witness: such an attempt was made while the daemon stayed connected to
\* another network.
C7_Witness ==
    \E t \in TaskIds :
        /\ AuthenticationFailedAttempt(t)
        /\ task[t].actual = NetB
        /\ task[t].path = NetA
        /\ Len(task[t].events) = 3

\* C8: every attempt that failed (proxy not built, daemon error, timeout) has
\* sent WifiConnected carrying the network the daemon had connected, and then
\* exactly one error event.
C8_FailureRequeries ==
    \A t \in TaskIds :
        (task[t].outcome \in {"proxy", "err", "timeout"} /\ task[t].pc \in {"clear", "done"}) =>
            /\ Len(task[t].events) = 3
            /\ task[t].events[2] = Ev("WifiConnected", task[t].actual)
            /\ task[t].events[3].type = "Error"

\* C27: once Shutdown has been handled, no spawned connect task is left both
\* unfinished and un-aborted
C27_ShutdownAbortsConnect ==
    connPc = "stopped" => \A t \in TaskIds : ~Live(t)

\* C30: a step of a spawned connect task (the task record changes while the
\* connect call and the Shutdown handler stand still) leaves the fields of
\* WifiBackend as they were
C30_TasksLeaveCoreState ==
    [][(task' # task /\ connPc' = connPc) =>
          (pending_connect' = pending_connect /\ device_path' = device_path)]_vars

\* C37: whenever no connect call is executing, pending_connect holds a handle
\* if and only if some connect task is unfinished and un-aborted, and the
\* handle is that task's; a task that finishes never empties a slot holding a
\* newer attempt's handle, and the slot never keeps the handle of a task that
\* has finished
C37_SlotTracksLiveTask ==
    /\ [](connPc = "idle" =>
            /\ pending_connect # 0 => Live(pending_connect)
            /\ \A t \in TaskIds : Live(t) => pending_connect = t)
    /\ [][\A t \in TaskIds :
             (task[t].pc = "clear" /\ task'[t].pc = "done" /\ pending_connect # t) =>
                 pending_connect' = pending_connect]_vars

\* the events of one attempt are in causal order: WifiConnecting(path) is the
\* first and only progress notice, and WifiNetworkKnown comes only after
\* WifiConnected(path)
CausalOrder(t) ==
    LET ev == task[t].events IN
    ev # <<>> =>
        /\ ev[1].type = "WifiConnecting" /\ ev[1].arg = task[t].path
        /\ \A i \in 2..Len(ev) : ev[i].type \in {"WifiConnected", "WifiNetworkKnown", "Error"}
        /\ \A j \in DOMAIN ev :
              ev[j].type = "WifiNetworkKnown" =>
                  /\ ev[j].arg = task[t].path
                  /\ \E i \in 1..(j - 1) :
                        ev[i].type = "WifiConnected" /\ ev[i].arg = task[t].path
        /\ (task[t].outcome = "ok" /\ task[t].pc = "clear") =>
              \E j \in DOMAIN ev : ev[j].type = "WifiNetworkKnown"

\* C23: in the events of every connect attempt WifiConnecting(P) comes before
\* the attempt's result events and, on success, WifiConnected(P) before
\* WifiNetworkKnown(P); an attempt on which the abort has taken effect sends
\* no further event
C23_CausalOrder ==
    /\ [](\A t \in TaskIds : CausalOrder(t))
    /\ [][\A t \in TaskIds :
             (task[t].aborted \/ task[t].pc = "cancelled") =>
                 Len(task'[t].events) <= Len(task[t].events)]_vars

\* C23 witness: one attempt was aborted and dropped, a later one has
\* succeeded and sent its three events
C23_Witness ==
    \E t, u \in TaskIds :
        /\ task[t].pc = "cancelled"
        /\ task[u].outcome = "ok" /\ task[u].pc = "clear"
        /\ Len(task[u].events) = 3

\* ------------------------------------------------------------------------
\* Bluetooth: discovery and its deadline, device tracking
\* (event_loop/state.rs, event_loop/streams.rs, bluetooth/backend.rs).
\* A step is one turn of the event loop: next_event picks a ready source and
\* handle_event runs the whole handler.  The daemon's answers stay the same
\* for the length of one handler.  out holds the events about power,
\* discovery and devices the handler sent.
\* ------------------------------------------------------------------------

\* Duration::from_secs(30) of the scan deadline
ScanTimeoutSecs == 30

\* step of the clock, in seconds
TickSecs == 10

\* the deadline armed too early
ScanDeadline_Short(t) == t + TickSecs

\* BtScan: Instant::now() + Duration::from_secs(30)
ScanDeadline(t) == t + ScanTimeoutSecs

\* BtStopScan leaving the deadline armed
StopScanDeadline_Kept(d) == d

\* BtStopScan: streams.bt_scan_deadline = None
StopScanDeadline(d) == NoDeadline

\* is_paired that never confirms the pairing
is_paired_Never(a) == FALSE

\* device.is_paired().await.unwrap_or(false)
is_paired(a) == dev[a] = "paired"

\* read_device_data that reports a name for every address
read_device_data_AllNamed(a) ==
    [address |-> a, paired |-> dev[a] = "paired", named |-> TRUE]

\* read_device_data: the BtDeviceData of an address
read_device_data(a) ==
    [address |-> a, paired |-> dev[a] = "paired", named |-> dev[a] # "noise"]

\* notify_scan_stopped: send BtDiscovering(false)
notify_scan_stopped(evs) == Append(evs, Ev("BtDiscovering", FALSE))

\* number of BtDiscovering(false) among events
Stops(evs) ==
    Cardinality({i \in 1..Len(evs) : evs[i].type = "BtDiscovering" /\ evs[i].arg = FALSE})

\* bt_device_events and bt_tracked_devices as one value
Tracking(events, tracked) == [device_events |-> events, tracked_devices |-> tracked]

\* start_tracking_device; subscribed is the outcome of device.events()
start_tracking_device(addr, subscribed, device_events, tracked_devices) ==
    IF addr \in tracked_devices THEN Tracking(device_events, tracked_devices)
    ELSE IF subscribed
    THEN Tracking([device_events EXCEPT ![addr] = @ + 1], tracked_devices \cup {addr})
    ELSE Tracking(device_events, tracked_devices)

\* rebuild_device_streams; subscribed is the set of addresses whose
\* device.events() succeeds
rebuild_device_streams(subscribed, tracked_devices) ==
    Tracking([a \in Addrs |-> IF a \in tracked_devices \cap subscribed THEN 1 ELSE 0],
             tracked_devices \cap subscribed)

\* the addresses in the order device_addresses lists them
AddrOrder == <<Addr1>>

\* send_initial_state: BtPowered, then BtDeviceAdded for every paired device
InitialStateEvents(powered) ==
    LET paired == SelectSeq(AddrOrder, is_paired) IN
    <<Ev("BtPowered", powered)>> \o
    [i \in 1..Len(paired) |-> Ev("BtDeviceAdded", read_device_data(paired[i]))]

\* send_initial_state: every paired device that is not tracked yet and whose
\* subscription succeeds becomes tracked
InitialTracking(subscribed, device_events, tracked_devices) ==
    LET new == {a \in Addrs : is_paired(a) /\ a \in subscribed} \ tracked_devices IN
    Tracking([a \in Addrs |-> IF a \in new THEN device_events[a] + 1 ELSE device_events[a]],
             tracked_devices \cup new)

\* run_event_loop before the first turn: send_initial_state and adapter_events
BtInit ==
    /\ dev \in [Addrs -> DevStates]
    /\ btPowered \in BOOLEAN
    /\ bt_adapter_events \in BOOLEAN
    /\ \E subscribed \in SUBSET Addrs :
          LET t == InitialTracking(subscribed, [a \in Addrs |-> 0], {}) IN
          /\ bt_device_events = t.device_events
          /\ bt_tracked_devices = t.tracked_devices
    /\ bt_discovery_stream = FALSE
    /\ bt_scan_deadline = NoDeadline
    /\ now = 0
    /\ running = TRUE
    /\ handled = "init"
    /\ out = InitialStateEvents(btPowered)
    /\ scanStart = NoDeadline /\ endedBy = "none" /\ stopEvents = 0
    /\ atPowerCall = <<>>

\* what a handler that leaves discovery alone keeps
ScanKept == UNCHANGED <<bt_discovery_stream, bt_scan_deadline, scanStart, endedBy, stopEvents>>

\* what a handler that leaves device tracking alone keeps
TrackingKept == UNCHANGED <<bt_device_events, bt_tracked_devices>>

\* what no handler changes: the clock, the daemon's devices, the loop running
WorldKept == UNCHANGED <<now, dev, running>>

\* the discovery stream is dropped by handler h after its events evs were sent
ScanEnded(h, evs) ==
    /\ bt_discovery_stream' = FALSE
    /\ stopEvents' = stopEvents + Stops(evs)
    /\ endedBy' = IF bt_discovery_stream THEN h ELSE endedBy
    /\ UNCHANGED scanStart

\* BtScan without the test that no discovery is running
BtScan_Unguarded(started) ==
    /\ running
    /\ started => btPowered
    /\ handled' = "BtScan" /\ atPowerCall' = <<>>
    /\ IF started
       THEN /\ out' = <<Ev("BtDiscovering", TRUE)>>
            /\ bt_discovery_stream' = TRUE
            /\ bt_scan_deadline' = ScanDeadline(now)
            /\ scanStart' = now /\ endedBy' = "none" /\ stopEvents' = 0
       ELSE /\ out' = <<Ev("BtError", "start_scan")>>
            /\ ScanKept
    /\ TrackingKept /\ WorldKept
    /\ UNCHANGED <<bt_adapter_events, btPowered>>
    /\ UNCHANGED notBtVars

\* handle_command, BackendCommand::BtScan; started is the outcome of
\* adapter.discover_devices_with_changes() in start_scan
BtScan(started) ==
    /\ running
    /\ started => btPowered
    /\ handled' = "BtScan" /\ atPowerCall' = <<>>
    /\ IF bt_discovery_stream
       THEN /\ out' = <<>>
            /\ ScanKept
       ELSE IF started
       THEN /\ out' = <<Ev("BtDiscovering", TRUE)>>
            /\ bt_discovery_stream' = TRUE
            /\ bt_scan_deadline' = ScanDeadline(now)
            /\ scanStart' = now /\ endedBy' = "none" /\ stopEvents' = 0
       ELSE /\ out' = <<Ev("BtError", "start_scan")>>
            /\ ScanKept
    /\ TrackingKept /\ WorldKept
    /\ UNCHANGED <<bt_adapter_events, btPowered>>
    /\ UNCHANGED notBtVars

\* handle_command, BackendCommand::BtStopScan; subscribed is the set of
\* addresses whose device.events() succeeds in rebuild_device_streams
BtStopScan(subscribed) ==
    /\ running
    /\ subscribed \subseteq bt_tracked_devices
    /\ handled' = "BtStopScan" /\ atPowerCall' = <<>>
    /\ IF bt_discovery_stream
       THEN LET evs == notify_scan_stopped(<<>>)
                t == rebuild_device_streams(subscribed, bt_tracked_devices) IN
            /\ bt_scan_deadline' = StopScanDeadline(bt_scan_deadline)
            /\ out' = evs
            /\ ScanEnded("BtStopScan", evs)
            /\ bt_device_events' = t.device_events
            /\ bt_tracked_devices' = t.tracked_devices
       ELSE /\ subscribed = {}
            /\ out' = <<>>
            /\ ScanKept /\ TrackingKept
    /\ WorldKept
    /\ UNCHANGED <<bt_adapter_events, btPowered>>
    /\ UNCHANGED notBtVars

\* handle_event, LoopEvent::BtScanTimeout; next_event returns it once the
\* armed deadline is reached
BtScanTimeout ==
    /\ running
    /\ bt_scan_deadline # NoDeadline
    /\ now >= bt_scan_deadline
    /\ handled' = "BtScanTimeout" /\ atPowerCall' = <<>>
    /\ LET evs == IF bt_discovery_stream THEN notify_scan_stopped(<<>>) ELSE <<>> IN
       /\ out' = evs
       /\ ScanEnded("BtScanTimeout", evs)
    /\ bt_scan_deadline' = NoDeadline
    /\ TrackingKept /\ WorldKept
    /\ UNCHANGED <<bt_adapter_events, btPowered>>
    /\ UNCHANGED notBtVars

\* BluetoothBackend::set_powered: the events it sends; ok is the outcome of
\* adapter.set_powered
set_powered(powered, ok) ==
    IF ok THEN <<Ev("BtPowered", powered)>>
    ELSE <<Ev("BtError", "set_powered"), Ev("BtPowered", btPowered)>>

\* what EventStreams and BackendState hold of discovery and device tracking
Held ==
    [bt_discovery_stream |-> bt_discovery_stream, bt_scan_deadline |-> bt_scan_deadline,
     bt_tracked_devices |-> bt_tracked_devices, bt_device_events |-> bt_device_events,
     bt_adapter_events |-> bt_adapter_events]

\* BtSetPowered with bt_backend.set_powered called ahead of the power-off reset
PowerCallPoint_First(before, after) == before

\* BtSetPowered: bt_backend.set_powered is called below the power-off reset,
\* with the core as the reset left it
PowerCallPoint(before, after) == after

\* handle_command, BackendCommand::BtSetPowered(powered); ok is the outcome of
\* adapter.set_powered, subscribed the addresses whose device.events()
\* succeeds in send_initial_state, adapterOk the outcome of adapter.events()
BtSetPowered(powered, ok, subscribed, adapterOk) ==
    /\ running
    /\ handled' = "BtSetPowered"
    /\ btPowered' = IF ok THEN powered ELSE btPowered
    /\ IF powered
       THEN LET t == InitialTracking(subscribed, bt_device_events, bt_tracked_devices) IN
            /\ \A a \in Addrs : t.device_events[a] <= MaxStreams
            /\ out' = set_powered(powered, ok) \o InitialStateEvents(btPowered')
            /\ bt_device_events' = t.device_events
            /\ bt_tracked_devices' = t.tracked_devices
            /\ bt_adapter_events' = adapterOk
            /\ ScanKept
            /\ atPowerCall' = <<[powered |-> TRUE, held |-> Held]>>
       ELSE LET evs == IF bt_discovery_stream THEN notify_scan_stopped(<<>>) ELSE <<>> IN
            /\ subscribed = {} /\ ~adapterOk
            /\ out' = evs \o set_powered(powered, ok)
            /\ ScanEnded("BtSetPowered", evs)
            /\ bt_scan_deadline' = NoDeadline
            /\ bt_tracked_devices' = {}
            /\ bt_device_events' = [a \in Addrs |-> 0]
            /\ bt_adapter_events' = FALSE
            /\ atPowerCall' = <<[powered |-> FALSE, held |-> PowerCallPoint(Held, Held')]>>
    /\ WorldKept
    /\ UNCHANGED notBtVars

\* handle_command, BackendCommand::Shutdown: the stream is dropped and the
\* loop returns, nothing is sent
Shutdown ==
    /\ running
    /\ running' = FALSE
    /\ handled' = "Shutdown" /\ atPowerCall' = <<>>
    /\ out' = <<>>
    /\ ScanEnded("Shutdown", <<>>)
    /\ TrackingKept
    /\ UNCHANGED <<bt_scan_deadline, bt_adapter_events, btPowered, now, dev>>
    /\ UNCHANGED notBtVars

\* an adapter event is delivered by the always-on adapter stream or by the
\* discovery stream
AdapterEventReady == running /\ (bt_adapter_events \/ bt_discovery_stream)

\* handle_adapter_event, AdapterEvent::DeviceAdded(addr)
DeviceAdded(addr, subscribed) ==
    /\ AdapterEventReady
    /\ bt_device_events[addr] < MaxStreams
    /\ handled' = "DeviceAdded" /\ atPowerCall' = <<>>
    /\ LET data == read_device_data(addr)
           t == start_tracking_device(addr, subscribed, bt_device_events, bt_tracked_devices) IN
       IF ~data.named
       THEN /\ out' = <<>>
            /\ TrackingKept
       ELSE /\ out' = <<Ev("BtDeviceAdded", data)>>
            /\ bt_device_events' = t.device_events
            /\ bt_tracked_devices' = t.tracked_devices
    /\ ScanKept /\ WorldKept
    /\ UNCHANGED <<bt_adapter_events, btPowered>>
    /\ UNCHANGED notBtVars

\* handle_adapter_event, AdapterEvent::DeviceRemoved(addr)
DeviceRemoved(addr, subscribed) ==
    /\ AdapterEventReady
    /\ bt_device_events[addr] < MaxStreams
    /\ handled' = "DeviceRemoved" /\ atPowerCall' = <<>>
    /\ LET removed == bt_tracked_devices \ {addr}
           t == start_tracking_device(addr, subscribed, bt_device_events, removed) IN
       IF is_paired(addr)
       THEN /\ out' = <<Ev("BtDeviceChanged", read_device_data(addr))>>
            /\ bt_device_events' = t.device_events
            /\ bt_tracked_devices' = t.tracked_devices
       ELSE /\ out' = <<Ev("BtDeviceRemoved", addr)>>
            /\ bt_tracked_devices' = removed
            /\ UNCHANGED bt_device_events
    /\ ScanKept /\ WorldKept
    /\ UNCHANGED <<bt_adapter_events, btPowered>>
    /\ UNCHANGED notBtVars

\* handle_device_property_change: a stream of bt_device_events yields
DevicePropertyChanged(addr) ==
    /\ running
    /\ bt_device_events[addr] > 0
    /\ handled' = "BtDevicePropertyChanged" /\ atPowerCall' = <<>>
    /\ out' = <<Ev("BtDeviceChanged", read_device_data(addr))>>
    /\ ScanKept /\ TrackingKept /\ WorldKept
    /\ UNCHANGED <<bt_adapter_events, btPowered>>
    /\ UNCHANGED notBtVars

\* the daemon: a device is paired, unpaired, named or forgotten
DaemonDevice(addr, st) ==
    /\ running
    /\ st # dev[addr]
    /\ dev' = [dev EXCEPT ![addr] = st]
    /\ ScanKept /\ TrackingKept
    /\ UNCHANGED <<bt_adapter_events, btPowered, now, running, handled, out, atPowerCall>>
    /\ UNCHANGED notBtVars

\* time passes
Tick ==
    /\ running
    /\ now + TickSecs <= MaxTime
    /\ now' = now + TickSecs
    /\ ScanKept /\ TrackingKept
    /\ UNCHANGED <<bt_adapter_events, btPowered, dev, running, handled, out, atPowerCall>>
    /\ UNCHANGED notBtVars

BluetoothNext ==
    \/ \E started \in BOOLEAN : BtScan(started)
    \/ \E subscribed \in SUBSET Addrs : BtStopScan(subscribed)
    \/ BtScanTimeout
    \/ \E powered, ok, adapterOk \in BOOLEAN, subscribed \in SUBSET Addrs :
          BtSetPowered(powered, ok, subscribed, adapterOk)
    \/ Shutdown
    \/ \E addr \in Addrs, subscribed \in BOOLEAN : DeviceAdded(addr, subscribed)
    \/ \E addr \in Addrs, subscribed \in BOOLEAN : DeviceRemoved(addr, subscribed)
    \/ \E addr \in Addrs : DevicePropertyChanged(addr)
    \/ \E addr \in Addrs, st \in DevStates : DaemonDevice(addr, st)
    \/ Tick

\* the event loop after init, with no WifiConnect command handled
BluetoothStart == BtInit /\ ConnectIdle /\ UiIdle /\ StationIdle /\ WifiListIdle /\ StateIdle /\ AgentIdle /\ AdapterIdle /\ DispatchIdle /\ FlightIdle /\ SelectIdle /\ InitIdle /\ WifiErrorsIdle

SpecBluetooth == BluetoothStart /\ [][BluetoothNext]_vars


\* ------------------------------------------------------------------------
\* Claims about the Bluetooth half of the event loop (SpecBluetooth)
\* ------------------------------------------------------------------------

\* the BtDeviceData of a paired device
PairedData(addr) == [address |-> addr, paired |-> TRUE, named |-> TRUE]

\* a step that handles DeviceRemoved(addr) while the daemon reports addr paired
RemovedWhilePaired(addr, subscribed) == DeviceRemoved(addr, subscribed) /\ dev[addr] = "paired"

\* C3 as stated: DeviceRemoved(addr) for an address the daemon still reports
\* as paired sends exactly one event, BtDeviceChanged with paired = true, no
\* BtDeviceRemoved, and addr is tracked afterwards.
C3_StillPairedStaysTracked ==
    [][\A addr \in Addrs, subscribed \in BOOLEAN :
          RemovedWhilePaired(addr, subscribed) =>
              /\ out' = <<Ev("BtDeviceChanged", PairedData(addr))>>
              /\ addr \in bt_tracked_devices']_vars

\* C3, amended: DeviceRemoved(addr) for an address the daemon still reports
\* as paired sends exactly one event, BtDeviceChanged with paired = true, no
\* BtDeviceRemoved; addr is tracked afterwards if the subscription to its
\* property changes succeeds, and untracked if it fails.
C3_StillPairedIsChanged ==
    [][\A addr \in Addrs, subscribed \in BOOLEAN :
          RemovedWhilePaired(addr, subscribed) =>
              /\ out' = <<Ev("BtDeviceChanged", PairedData(addr))>>
              /\ addr \in bt_tracked_devices' <=> subscribed]_vars

\* C3 witness: DeviceRemoved was handled for a paired address, BtDeviceChanged
\* was sent and the address is tracked again
C3_Witness ==
    /\ handled = "DeviceRemoved"
    /\ out = <<Ev("BtDeviceChanged", PairedData(Addr1))>>
    /\ Addr1 \in bt_tracked_devices
    /\ bt_device_events[Addr1] = 2

\* 30 seconds have passed since the discovery was started
ScanTimeReached == scanStart # NoDeadline /\ now >= scanStart + ScanTimeoutSecs

\* BtScanTimeout has been produced for the discovery, or its timer is armed
\* for 30 seconds after the start and the stream is still held
TimeoutProducedOrArmed ==
    \/ endedBy = "BtScanTimeout"
    \/ bt_discovery_stream /\ bt_scan_deadline = scanStart + ScanTimeoutSecs

\* what a discovery ended by BtScanTimeout leaves: the stream dropped, the
\* deadline cleared, one BtDiscovering(false), not before the 30 seconds
TimeoutOutcome ==
    endedBy = "BtScanTimeout" =>
        /\ ~bt_discovery_stream
        /\ bt_scan_deadline = NoDeadline
        /\ stopEvents = 1
        /\ ScanTimeReached

\* C5 as stated: once 30 seconds have passed since BtScan started discovery
\* with no BtStopScan, BtScanTimeout is produced, the stream is dropped, the
\* deadline cleared and exactly one BtDiscovering(false) is sent for the scan.
C5_TimeoutUnlessStopScan ==
    /\ stopEvents <= 1
    /\ TimeoutOutcome
    /\ (ScanTimeReached /\ endedBy # "BtStopScan") => TimeoutProducedOrArmed

\* C5, amended: once 30 seconds have passed since BtScan started discovery
\* with no BtStopScan, BtSetPowered(false) or Shutdown handled in between,
\* BtScanTimeout is produced, the stream is dropped, the deadline cleared and
\* exactly one BtDiscovering(false) is sent for the scan; no scan gets a second
\* BtDiscovering(false).
C5_TimeoutUnlessEnded ==
    /\ stopEvents <= 1
    /\ TimeoutOutcome
    /\ (ScanTimeReached /\ endedBy \notin {"BtStopScan", "BtSetPowered", "Shutdown"})
          => TimeoutProducedOrArmed

\* C5 witness: a discovery was ended by BtScanTimeout and a BtStopScan
\* handled afterwards sent no second BtDiscovering(false)
C5_Witness ==
    /\ endedBy = "BtScanTimeout"
    /\ handled = "BtStopScan"
    /\ stopEvents = 1

\* C6: from the BtStopScan that ends a discovery until the next discovery
\* starts, the deadline is None, the stream is dropped, no BtScanTimeout is
\* handled and no further BtDiscovering(false) is sent.
C6_StopCancelsDeadline ==
    [][endedBy' = "BtStopScan" =>
          /\ bt_scan_deadline' = NoDeadline
          /\ ~bt_discovery_stream'
          /\ handled' # "BtScanTimeout"
          /\ (endedBy = "BtStopScan" => stopEvents' = stopEvents)]_vars

\* C6 witness: a discovery was stopped by BtStopScan, its 30 seconds have
\* passed and a BtSetPowered(false) was handled since
C6_Witness ==
    /\ endedBy = "BtStopScan"
    /\ ScanTimeReached
    /\ handled = "BtSetPowered" /\ ~btPowered
    /\ stopEvents = 1

\* C17: BtSetPowered(false) drops the discovery stream, sending
\* BtDiscovering(false) if and only if one was live, clears the deadline,
\* empties the tracked set, drops the per-device streams and the adapter-event
\* stream, and calls the daemon's power-off with all of that done
C17_PowerOffReset ==
    [][(handled' = "BtSetPowered" /\ now' = now /\ dev' = dev
            /\ ~atPowerCall'[1].powered) =>
        /\ bt_discovery_stream' = FALSE
        /\ (Stops(out') = 1 <=> bt_discovery_stream)
        /\ (Stops(out') = 0 <=> ~bt_discovery_stream)
        /\ bt_scan_deadline' = NoDeadline
        /\ bt_tracked_devices' = {}
        /\ \A a \in Addrs : bt_device_events'[a] = 0
        /\ bt_adapter_events' = FALSE
        /\ atPowerCall'[1].held = Held'
        /\ \A i \in 1..Len(out') :
            out'[i].type = "BtDiscovering" =>
                \A j \in 1..Len(out') : out'[j].type \in {"BtPowered", "BtError"} => i < j]_vars

\* C17 happens: BtSetPowered(false) was handled during a scan with a tracked
\* device, and the power-off call was made
C17_Witness ==
    /\ handled = "BtSetPowered"
    /\ atPowerCall # <<>>
    /\ ~atPowerCall[1].powered
    /\ endedBy = "BtSetPowered"
    /\ Stops(out) = 1
    /\ ~btPowered

\* C33: DeviceAdded(addr) for a device with an empty name and alias equal to
\* its address sends no event and leaves the tracked set as it was; for any
\* other device it sends exactly one BtDeviceAdded and, if the subscription to
\* the device's property changes succeeds, addr is tracked afterwards
C33_NoiseFiltered ==
    [][\A addr \in Addrs, subscribed \in BOOLEAN :
          DeviceAdded(addr, subscribed) =>
              IF dev[addr] = "noise"
              THEN /\ out' = <<>>
                   /\ bt_tracked_devices' = bt_tracked_devices
              ELSE /\ Len(out') = 1
                   /\ out'[1].type = "BtDeviceAdded"
                   /\ out'[1].arg.address = addr
                   /\ subscribed => addr \in bt_tracked_devices'
                   /\ bt_tracked_devices' \subseteq bt_tracked_devices \cup {addr}]_vars

\* C36: while the loop runs, between two handled events the scan deadline is
\* armed if and only if a discovery stream is held; BtScan while a discovery
\* is running changes nothing: the stream and the deadline stay as they are
\* and no event is sent
C36_DeadlineIffDiscovery ==
    /\ [](running => (bt_scan_deadline # NoDeadline <=> bt_discovery_stream))
    /\ [][((\E started \in BOOLEAN : BtScan(started)) /\ bt_discovery_stream) =>
              /\ bt_discovery_stream'
              /\ bt_scan_deadline' = bt_scan_deadline
              /\ scanStart' = scanStart
              /\ out' = <<>>]_vars

\* C36 happens: BtScan was handled ten seconds or more into a running
\* discovery, and the deadline is still the one of its start
C36_Witness ==
    /\ handled = "BtScan"
    /\ out = <<>>
    /\ bt_discovery_stream
    /\ now >= scanStart + TickSecs
    /\ bt_scan_deadline = scanStart + ScanTimeoutSecs

\* C35: after every handled event the tracked set is exactly the set of
\* addresses with a per-device stream in bt_device_events, and every tracked
\* address has exactly one stream
C35_TrackedIsSubscribed ==
    /\ bt_tracked_devices = {a \in Addrs : bt_device_events[a] > 0}
    /\ \A a \in bt_tracked_devices : bt_device_events[a] = 1

\* the value of the last BtPowered event among events (there is one)
LastBtPowered(evs) ==
    LET idx == {i \in 1..Len(evs) : evs[i].type = "BtPowered"}
        last == CHOOSE i \in idx : \A j \in idx : j <= i
    IN evs[last].arg

\* C39: when BtSetPowered has been handled (every subscription it attempts
\* succeeding), the adapter-event stream is held and the paired devices are
\* tracked if the last BtPowered event of the command reported true, and no
\* adapter-event stream is held and nothing is tracked if it reported false
C39_MonitoringFollowsPower ==
    [][\A powered, ok, adapterOk \in BOOLEAN, subscribed \in SUBSET Addrs :
          (BtSetPowered(powered, ok, subscribed, adapterOk)
              /\ (powered => adapterOk /\ subscribed = Addrs)) =>
              IF LastBtPowered(out')
              THEN /\ bt_adapter_events'
                   /\ \A a \in Addrs : is_paired(a) => a \in bt_tracked_devices'
              ELSE /\ ~bt_adapter_events'
                   /\ bt_tracked_devices' = {}]_vars

\* C39 for the commands the daemon carries out
C39_WhenDaemonObeys ==
    [][\A powered, adapterOk \in BOOLEAN, subscribed \in SUBSET Addrs :
          (BtSetPowered(powered, TRUE, subscribed, adapterOk)
              /\ (powered => adapterOk /\ subscribed = Addrs)) =>
              IF LastBtPowered(out')
              THEN /\ bt_adapter_events'
                   /\ \A a \in Addrs : is_paired(a) => a \in bt_tracked_devices'
              ELSE /\ ~bt_adapter_events'
                   /\ bt_tracked_devices' = {}]_vars

\* C33 happens: during a scan DeviceAdded was handled for a nameless device,
\* nothing was sent and the address is not tracked
C33_Witness ==
    /\ handled = "DeviceAdded"
    /\ bt_discovery_stream
    /\ dev[Addr1] = "noise"
    /\ out = <<>>
    /\ Addr1 \notin bt_tracked_devices


\* ------------------------------------------------------------------------
\* The UI device model: WlcontrolManager's Bluetooth list store, the row
\* activation of the Bluetooth page, and the backend's handling of the
\* commands they send (manager.rs, ui/bluetooth_page.rs, bluetooth/device.rs,
\* bluetooth/backend.rs).  The UI handles one event at a time, the backend one
\* command at a time.
\* ------------------------------------------------------------------------

\* BtDevice::new, with the local operation flags cleared
NewBtDevice(data) ==
    [address |-> data.address, paired |-> data.paired, connected |-> data.connected,
     connecting |-> FALSE, disconnecting |-> FALSE, removing |-> FALSE]

\* BtDevice::state with the paired test moved above the connecting test
BtDeviceState_PairedFirst(d) ==
    IF d.removing THEN "Removing"
    ELSE IF d.disconnecting THEN "Disconnecting"
    ELSE IF d.paired THEN "Paired"
    ELSE IF d.connecting THEN "Pairing"
    ELSE IF d.connected THEN "Connected"
    ELSE "Discovered"

\* BtDevice::state
BtDeviceState(d) ==
    IF d.removing THEN "Removing"
    ELSE IF d.disconnecting THEN "Disconnecting"
    ELSE IF d.connecting THEN (IF d.paired THEN "Connecting" ELSE "Pairing")
    ELSE IF d.connected THEN "Connected"
    ELSE IF d.paired THEN "Paired"
    ELSE "Discovered"

\* find_bt_device_index(address).is_some()
HasBtDevice(store, address) == \E i \in 1..Len(store) : store[i].address = address

\* set_bt_device_flag: the closure f, given as the fields it sets, applied to
\* the device of that address
set_bt_device_flag(store, address, f) ==
    [i \in 1..Len(store) |->
        IF store[i].address = address
        THEN [k \in DOMAIN store[i] |-> IF k \in DOMAIN f THEN f[k] ELSE store[i][k]]
        ELSE store[i]]

\* set_bt_connecting
set_bt_connecting(store, address) ==
    [i \in 1..Len(store) |-> [store[i] EXCEPT !.connecting = (store[i].address = address)]]

\* clear_bt_operations
clear_bt_operations(store) ==
    [i \in 1..Len(store) |->
        [store[i] EXCEPT !.connecting = FALSE, !.disconnecting = FALSE, !.removing = FALSE]]

\* reset_bt_connected_state
reset_bt_connected_state(store) ==
    [i \in 1..Len(store) |-> [store[i] EXCEPT !.connected = FALSE]]

\* remove_unpaired_bt_devices that removes nothing
remove_unpaired_bt_devices_Kept(store) == store

\* remove_unpaired_bt_devices
remove_unpaired_bt_devices(store) == SelectSeq(store, LAMBDA d : d.paired)

\* update_bt_device
update_bt_device(store, data) ==
    set_bt_device_flag(store, data.address,
        [paired |-> data.paired, connected |-> data.connected])

\* add_bt_device
add_bt_device(store, data) ==
    IF HasBtDevice(store, data.address) THEN update_bt_device(store, data)
    ELSE Append(store, NewBtDevice(data))

\* WlcontrolManager::handle_event, the Bluetooth events
handle_event(store, event) ==
    CASE event.type = "BtPowered" ->
            IF event.arg THEN store
            ELSE remove_unpaired_bt_devices(reset_bt_connected_state(clear_bt_operations(store)))
      [] event.type = "BtConnecting" -> set_bt_connecting(store, event.arg)
      [] event.type = "BtDeviceAdded" -> add_bt_device(store, event.arg)
      [] event.type = "BtDeviceChanged" ->
            set_bt_device_flag(update_bt_device(store, event.arg), event.arg.address,
                [connecting |-> FALSE, disconnecting |-> FALSE])
      [] event.type = "Error" -> clear_bt_operations(store)
      [] OTHER -> store

\* WlcontrolManager::handle_event: what bt_discovering is after an event
handle_event_discovering(discovering, event) ==
    CASE event.type = "BtPowered" -> IF event.arg THEN discovering ELSE FALSE
      [] event.type = "BtDiscovering" -> event.arg
      [] OTHER -> discovering

\* request_bt_connect and request_bt_pair: set_connecting(true) on the device
request_bt_connect(store, path) ==
    set_bt_device_flag(store, path, [connecting |-> TRUE])

\* request_bt_disconnect: set_disconnecting(true) on the device
request_bt_disconnect(store, path) ==
    set_bt_device_flag(store, path, [disconnecting |-> TRUE])

\* BtDeviceData as the backend reads it from the daemon
BtDeviceData == [address |-> Addr1, paired |-> bluez.paired, connected |-> bluez.connected]

\* the manager is constructed and the backend started; the adapter is on
ManagerInit ==
    /\ bt_devices = <<>>
    /\ bt_discovering = FALSE
    /\ uiHandled = <<>>
    /\ cmd_rx = <<>>
    /\ evt_rx = <<>>
    /\ bluez \in [powered : {TRUE}, paired : BOOLEAN, connected : {FALSE}]

\* bluetooth_page.rs, row activation: the request chosen by the device's
\* state; rows in an in-progress state ignore the click
RowActivated(address) ==
    /\ HasBtDevice(bt_devices, address)
    /\ Len(cmd_rx) < MaxCommands
    /\ LET d == bt_devices[CHOOSE i \in 1..Len(bt_devices) : bt_devices[i].address = address]
           st == BtDeviceState(d) IN
       /\ st \in {"Discovered", "Paired", "Connected"}
       /\ bt_devices' = IF st = "Connected" THEN request_bt_disconnect(bt_devices, d.address)
                        ELSE request_bt_connect(bt_devices, d.address)
       /\ cmd_rx' = Append(cmd_rx,
                       [type |-> CASE st = "Discovered" -> "BtPair"
                                   [] st = "Paired" -> "BtConnect"
                                   [] st = "Connected" -> "BtDisconnect",
                        path |-> d.address])
    /\ UNCHANGED <<evt_rx, bluez>>
    /\ UNCHANGED <<bt_discovering, uiHandled>>
    /\ UNCHANGED notUiVars

\* the UI's event receiver: handle_event on the next event
UiHandleEvent ==
    /\ evt_rx # <<>>
    /\ bt_devices' = handle_event(bt_devices, Head(evt_rx))
    /\ bt_discovering' = handle_event_discovering(bt_discovering, Head(evt_rx))
    /\ uiHandled' = IF Head(evt_rx).type = "BtPowered"
                    THEN <<[event |-> Head(evt_rx), bt_devices |-> bt_devices,
                            bt_discovering |-> bt_discovering]>>
                    ELSE <<>>
    /\ evt_rx' = Tail(evt_rx)
    /\ UNCHANGED <<cmd_rx, bluez>>
    /\ UNCHANGED notUiVars

\* BluetoothBackend::connect, disconnect and pair: the events sent for a
\* command; ok is the outcome of the daemon call
CommandEvents(cmd, ok) ==
    (IF cmd.type = "BtDisconnect" THEN <<>> ELSE <<Ev("BtConnecting", cmd.path)>>)
    \o (IF ok THEN <<>> ELSE <<Ev("Error", "bluez")>>)

\* BluetoothBackend::connect, disconnect and pair: what the daemon call
\* leaves when it succeeds
CommandEffect(cmd) ==
    CASE cmd.type = "BtConnect" -> [bluez EXCEPT !.connected = TRUE]
      [] cmd.type = "BtDisconnect" -> [bluez EXCEPT !.connected = FALSE]
      [] cmd.type = "BtPair" -> [bluez EXCEPT !.paired = TRUE]

\* handle_command on BtConnect, BtDisconnect or BtPair
BackendHandleCommand(ok) ==
    /\ cmd_rx # <<>>
    /\ ok => bluez.powered
    /\ LET cmd == Head(cmd_rx)
           evs == CommandEvents(cmd, ok) IN
       /\ Len(evt_rx) + Len(evs) <= MaxEvents
       /\ evt_rx' = evt_rx \o evs
       /\ bluez' = IF ok THEN CommandEffect(cmd) ELSE bluez
    /\ cmd_rx' = Tail(cmd_rx)
    /\ UNCHANGED bt_devices
    /\ UNCHANGED <<bt_discovering, uiHandled>>
    /\ UNCHANGED notUiVars

\* handle_device_property_change: a property of the device changed (the
\* link came up or went down, or only the signal strength moved) and the
\* backend sends BtDeviceChanged with the data it reads
DevicePropertyEvent(connected) ==
    /\ Len(evt_rx) < MaxEvents
    /\ connected => bluez.powered
    /\ bluez' = [bluez EXCEPT !.connected = connected]
    /\ evt_rx' = Append(evt_rx, Ev("BtDeviceChanged", [BtDeviceData EXCEPT !.connected = connected]))
    /\ UNCHANGED <<bt_devices, cmd_rx>>
    /\ UNCHANGED <<bt_discovering, uiHandled>>
    /\ UNCHANGED notUiVars

\* handle_adapter_event, AdapterProperty::Powered: the adapter was switched
AdapterPoweredEvent(powered) ==
    /\ Len(evt_rx) < MaxEvents
    /\ powered # bluez.powered
    /\ bluez' = [bluez EXCEPT !.powered = powered, !.connected = powered /\ @]
    /\ evt_rx' = Append(evt_rx, Ev("BtPowered", powered))
    /\ UNCHANGED <<bt_devices, cmd_rx>>
    /\ UNCHANGED <<bt_discovering, uiHandled>>
    /\ UNCHANGED notUiVars

\* start_scan and notify_scan_stopped: the backend sends BtDiscovering
DiscoveringEvent(discovering) ==
    /\ Len(evt_rx) < MaxEvents
    /\ discovering => bluez.powered
    /\ evt_rx' = Append(evt_rx, Ev("BtDiscovering", discovering))
    /\ UNCHANGED <<bt_devices, cmd_rx, bluez>>
    /\ UNCHANGED <<bt_discovering, uiHandled>>
    /\ UNCHANGED notUiVars

\* handle_adapter_event, AdapterEvent::DeviceAdded, and send_initial_state
DeviceAddedEvent ==
    /\ Len(evt_rx) < MaxEvents
    /\ bluez.powered
    /\ evt_rx' = Append(evt_rx, Ev("BtDeviceAdded", BtDeviceData))
    /\ UNCHANGED <<bt_devices, cmd_rx, bluez>>
    /\ UNCHANGED <<bt_discovering, uiHandled>>
    /\ UNCHANGED notUiVars

ManagerNext ==
    \/ \E address \in Addrs : RowActivated(address)
    \/ UiHandleEvent
    \/ \E ok \in BOOLEAN : BackendHandleCommand(ok)
    \/ \E connected \in BOOLEAN : DevicePropertyEvent(connected)
    \/ \E powered \in BOOLEAN : AdapterPoweredEvent(powered)
    \/ \E discovering \in BOOLEAN : DiscoveringEvent(discovering)
    \/ DeviceAddedEvent

\* the manager after construction, the other parts not started
ManagerStart == ManagerInit /\ ConnectIdle /\ BtIdle /\ StationIdle /\ WifiListIdle /\ StateIdle /\ AgentIdle /\ AdapterIdle /\ DispatchIdle /\ FlightIdle /\ SelectIdle /\ InitIdle /\ WifiErrorsIdle

SpecManager == ManagerStart /\ [][ManagerNext]_vars

\* ------------------------------------------------------------------------
\* Claims about the UI device model (SpecManager)
\* ------------------------------------------------------------------------

\* C4: for every device of the list store, whatever requests and backend
\* events were interleaved, connecting and disconnecting are never both true.
C4_OneOperationFlag ==
    \A i \in 1..Len(bt_devices) : ~(bt_devices[i].connecting /\ bt_devices[i].disconnecting)

\* C18: after the UI has handled BtPowered(false), no device of the model is
\* connected, every device that was not paired is gone from it, and
\* bt_discovering is false
C18_PoweredOffModel ==
    (uiHandled # <<>> /\ uiHandled[1].event = Ev("BtPowered", FALSE)) =>
        /\ \A i \in 1..Len(bt_devices) : ~bt_devices[i].connected
        /\ \A i \in 1..Len(uiHandled[1].bt_devices) :
            ~uiHandled[1].bt_devices[i].paired =>
                ~HasBtDevice(bt_devices, uiHandled[1].bt_devices[i].address)
        /\ ~bt_discovering

\* C18 happens: BtPowered(false) was handled while the model showed a scan
\* and held a connected device that is not paired
C18_Witness ==
    /\ uiHandled # <<>>
    /\ uiHandled[1].event = Ev("BtPowered", FALSE)
    /\ uiHandled[1].bt_discovering
    /\ Len(uiHandled[1].bt_devices) = 1
    /\ uiHandled[1].bt_devices[1].connected
    /\ ~uiHandled[1].bt_devices[1].paired
    /\ bt_devices = <<>>



\* ------------------------------------------------------------------------
\* The station set-up after a power-on (event_loop/helpers.rs, state.rs) and
\* WifiBackend::scan.  The WifiPoweredChanged(true) handler runs inside the
\* event loop, one step per attempt of wait_for_station_proxy; the loop takes
\* no other event or command until the handler has returned.  The list
\* send_known_networks sends is not modelled.
\* ------------------------------------------------------------------------

\* wait_for_station_proxy(conn, path, 10)
MaxAttempts == 10

\* let delay = 50 * (1 << attempt.min(4))
BaseDelayMs == 50
MaxShift == 4

Min(a, b) == IF a < b THEN a ELSE b

\* the delay doubling without its cap
BackoffDelay_Uncapped(n) == BaseDelayMs * 2^n

\* a delay that grows by 50 ms per attempt instead of doubling
BackoffDelay_Linear(n) == BaseDelayMs * (n + 1)

\* wait_for_station_proxy: the sleep after failed attempt n, in milliseconds
BackoffDelay(n) == BaseDelayMs * 2^Min(n, MaxShift)

\* create_station_proxy answers Some
create_station_proxy(present) == present

\* a check that finds the interface whether it is there or not
has_station_interface_Always(present) == TRUE

\* has_station_interface, as WifiBackend::station asks it
has_station_interface(present) == present

\* WifiBackend::send_networks: the list is sent if the station is there
send_networks(present) ==
    IF has_station_interface(present) THEN <<Ev("WifiNetworks", "list")>> ELSE <<>>

\* the daemon has switched the device on: Powered = true waits in
\* device_powered_stream, the Station interface is not there yet
StationInit ==
    /\ stPc = "idle" /\ attempt = 0 /\ slept = 0
    /\ ifacePresent = FALSE
    /\ powered_changed = TRUE
    /\ scan_cmd = "none"
    /\ station_streams = FALSE
    /\ pollResult = "none" /\ scanResult = "none" /\ scanSent = "none"
    /\ stOut = <<>>

\* request_wifi_scan: the UI sends WifiScan; the tag records when it was sent
RequestWifiScan ==
    /\ scan_cmd = "none"
    /\ scan_cmd' = IF ifacePresent THEN "present"
                   ELSE IF powered_changed THEN "early"
                   ELSE IF stPc = "polling" THEN "polling"
                   ELSE "late"
    /\ scanResult' = "none" /\ scanSent' = "none"
    /\ UNCHANGED <<stPc, attempt, slept, ifacePresent, powered_changed, station_streams,
                   pollResult, stOut>>
    /\ UNCHANGED notStationVars

\* handle_event, LoopEvent::WifiPoweredChanged(true), lines 52-59: WifiPowered
\* is sent and setup_station_streams_with_retry is entered
WifiPoweredChanged ==
    /\ stPc = "idle"
    /\ powered_changed
    /\ powered_changed' = FALSE
    /\ stOut' = <<Ev("WifiPowered", TRUE)>>
    /\ stPc' = "polling"
    /\ attempt' = 0 /\ slept' = 0
    /\ pollResult' = "none"
    /\ UNCHANGED <<ifacePresent, scan_cmd, station_streams, scanResult, scanSent>>
    /\ UNCHANGED notStationVars

\* wait_for_station_proxy, one turn of its loop, and the rest of the handler
\* (lines 60-64 of state.rs) once it returns
PollAttempt ==
    /\ stPc = "polling"
    /\ IF create_station_proxy(ifacePresent)
       THEN /\ pollResult' = "found"
            /\ station_streams' = TRUE
            /\ stOut' = stOut \o send_networks(ifacePresent)
            /\ stPc' = "idle"
            /\ UNCHANGED <<attempt, slept>>
       ELSE IF attempt + 1 < MaxAttempts
       THEN /\ slept' = slept + BackoffDelay(attempt)
            /\ attempt' = attempt + 1
            /\ UNCHANGED <<pollResult, station_streams, stOut, stPc>>
       ELSE /\ pollResult' = "gaveup"
            /\ station_streams' = FALSE
            /\ stOut' = stOut \o send_networks(ifacePresent)
            /\ stPc' = "idle"
            /\ UNCHANGED <<attempt, slept>>
    /\ UNCHANGED <<ifacePresent, powered_changed, scan_cmd, scanResult, scanSent>>
    /\ UNCHANGED notStationVars

\* handle_command, BackendCommand::WifiScan, and WifiBackend::scan; scanOk is
\* the outcome of station.scan()
WifiScan(scanOk) ==
    /\ stPc = "idle"
    /\ scan_cmd # "none"
    /\ scan_cmd' = "none"
    /\ scanSent' = scan_cmd
    /\ IF has_station_interface(ifacePresent)
       THEN /\ scanResult' = IF scanOk THEN "issued" ELSE "failed"
            /\ stOut' = IF scanOk THEN <<>> ELSE <<Ev("Error", "Scan: ")>>
       ELSE /\ scanOk
            /\ scanResult' = "dropped"
            /\ stOut' = <<>>
    /\ UNCHANGED <<stPc, attempt, slept, ifacePresent, powered_changed, station_streams,
                   pollResult>>
    /\ UNCHANGED notStationVars

\* the daemon: the Station interface appears on the device
StationAppears ==
    /\ ~ifacePresent
    /\ ifacePresent' = TRUE
    /\ UNCHANGED <<stPc, attempt, slept, powered_changed, scan_cmd, station_streams,
                   pollResult, scanResult, scanSent, stOut>>
    /\ UNCHANGED notStationVars

StationNext ==
    \/ RequestWifiScan
    \/ WifiPoweredChanged
    \/ PollAttempt
    \/ \E scanOk \in BOOLEAN : WifiScan(scanOk)
    \/ StationAppears

\* the event loop at a power-on, the other parts not started
StationStart == StationInit /\ ConnectIdle /\ BtIdle /\ UiIdle /\ WifiListIdle /\ StateIdle /\ AgentIdle /\ AdapterIdle /\ DispatchIdle /\ FlightIdle /\ SelectIdle /\ InitIdle /\ WifiErrorsIdle

SpecStation == StationStart /\ [][StationNext]_vars


\* ------------------------------------------------------------------------
\* Claims about the station set-up (SpecStation)
\* ------------------------------------------------------------------------

\* C9 as stated: the polling with 10 attempts sleeps at most 1550 ms in total
\* before it finds the interface or gives up.
C9_SleepsAtMost1550 == slept <= 1550

\* C9, amended: the polling with 10 attempts sleeps at most 4750 ms in total
\* (50 + 100 + 200 + 400 + 5 * 800) before it finds the interface or gives up,
\* and exactly that long when it gives up.
C9_SleepsAtMost4750 ==
    /\ slept <= 4750
    /\ pollResult = "gaveup" => slept = 4750

\* C9 witness: the polling gave up after its tenth attempt
C9_Witness ==
    /\ pollResult = "gaveup"
    /\ attempt = MaxAttempts - 1
    /\ slept = 4750

\* the sleeps between attempts k and k+1, k = 1..9, in milliseconds
SleepSchedule == <<50, 100, 200, 400, 800, 800, 800, 800, 800>>

\* C32: wait_for_station_proxy makes at most 10 attempts; an attempt that
\* finds the interface returns at once without a sleep, the tenth attempt
\* returns without a sleep when it fails, and a failed attempt k < 10 is
\* followed by a sleep of 50 ms doubled each time and capped at 800 ms
C32_BackoffSchedule ==
    /\ [](attempt + 1 <= 10)
    /\ [][(stPc = "polling" /\ (attempt' # attempt \/ slept' # slept \/ stPc' # stPc)) =>
            IF ifacePresent
                THEN pollResult' = "found" /\ slept' = slept /\ attempt' = attempt
            ELSE IF attempt + 1 = 10
                THEN pollResult' = "gaveup" /\ slept' = slept /\ attempt' = attempt
            ELSE /\ slept' - slept = SleepSchedule[attempt + 1]
                 /\ attempt' = attempt + 1
                 /\ stPc' = "polling"]_vars

\* C32 witness: the seventh attempt found the interface, after sleeps of
\* 50, 100, 200, 400, 800 and 800 ms
C32_Witness ==
    /\ pollResult = "found"
    /\ attempt = 6
    /\ slept = 2350

\* the WifiScan handled last was sent after the power-on with the interface
\* absent and before the polling ended
SentBeforePollingEnded == scanSent \in {"early", "polling"}

\* C10 as stated: a WifiScan sent right after the power-on with the interface
\* absent is held back until the polling has ended; it is issued to the daemon
\* if the polling located the interface, and dropped with no event and no
\* error if the polling gave up.
C10_HeldBackUntilPolled ==
    SentBeforePollingEnded =>
        /\ pollResult # "none"
        /\ pollResult = "found" => scanResult \in {"issued", "failed"}
        /\ pollResult = "gaveup" => (scanResult = "dropped" /\ stOut = <<>>)

\* C10, amended: while the loop is polling, a queued WifiScan stays queued;
\* when a WifiScan is handled, the daemon scan is issued if the interface is
\* present at that moment, and the command is dropped with no event and no
\* error if it is absent, whether the polling has run or not.
C10_ScanByPresence ==
    [][/\ (stPc = "polling" /\ scan_cmd # "none") => scan_cmd' = scan_cmd
       /\ (scan_cmd # "none" /\ scan_cmd' = "none") =>
             /\ stPc = "idle"
             /\ ifacePresent => scanResult' \in {"issued", "failed"}
             /\ ~ifacePresent => (scanResult' = "dropped" /\ stOut' = <<>>)]_vars

\* C10 witness: a WifiScan sent during the polling was handled after the
\* polling had found the interface, and the scan was issued
C10_Witness ==
    /\ scanSent = "polling"
    /\ pollResult = "found"
    /\ slept > 0
    /\ scanResult = "issued"


\* ------------------------------------------------------------------------
\* The UI WiFi model: WlcontrolManager::handle_event for WifiNetworks and
\* WifiKnownNetworks (src/backend/manager.rs)
\* ------------------------------------------------------------------------

\* longest snapshot a WifiNetworks or WifiKnownNetworks event carries
MaxNetworks == 2

\* WifiNetworkData values a scan can report: two networks share a name and
\* differ in type
WifiNetworkDatas ==
    { [path |-> "/net/home_psk", name |-> "home", network_type |-> "psk",
       connected |-> TRUE, known |-> TRUE],
      [path |-> "/net/home_open", name |-> "home", network_type |-> "open",
       connected |-> FALSE, known |-> FALSE],
      [path |-> "/net/cafe_open", name |-> "cafe", network_type |-> "open",
       connected |-> FALSE, known |-> TRUE] }

\* KnownNetworkData values the daemon can hold
KnownNetworkDatas ==
    { [path |-> "/known/home_psk", name |-> "home", network_type |-> "psk"],
      [path |-> "/known/cafe_open", name |-> "cafe", network_type |-> "open"],
      [path |-> "/known/cafe_psk", name |-> "cafe", network_type |-> "psk"] }

\* Vec<T> of at most MaxNetworks elements
Snapshots(S) == UNION { [1..n -> S] : n \in 0..MaxNetworks }

\* WifiNetwork::new
WifiNetwork_new(data) ==
    [path |-> data.path, name |-> data.name, network_type |-> data.network_type,
     connected |-> data.connected, known |-> data.known, offline |-> FALSE,
     connecting |-> FALSE, disconnecting |-> FALSE, forgetting |-> FALSE]

\* WifiNetwork::new_saved_offline
new_saved_offline(data) ==
    [path |-> data.path, name |-> data.name, network_type |-> data.network_type,
     connected |-> FALSE, known |-> TRUE, offline |-> TRUE,
     connecting |-> FALSE, disconnecting |-> FALSE, forgetting |-> FALSE]

\* rebuild_saved_networks with the filter left out
rebuild_saved_networks_Unfiltered(known, visible) ==
    [i \in 1..Len(known) |-> new_saved_offline(known[i])]

\* rebuild_saved_networks: the store rebuilt from the known networks whose
\* (name, type) is not visible
rebuild_saved_networks(known, visible) ==
    LET kept == SelectSeq(known, LAMBDA d : <<d.name, d.network_type>> \notin visible)
    IN  [i \in 1..Len(kept) |-> new_saved_offline(kept[i])]

\* handle_event(WifiNetworks(networks)): update_wifi_networks, then
\* rebuild_saved_networks
WifiNetworks(networks) ==
    /\ cached_visible' = { <<networks[i].name, networks[i].network_type>> : i \in 1..Len(networks) }
    /\ wifi_networks' = [i \in 1..Len(networks) |-> WifiNetwork_new(networks[i])]
    /\ saved_networks' = rebuild_saved_networks(cached_known, cached_visible')
    /\ wifi_last' = "WifiNetworks"
    /\ UNCHANGED cached_known
    /\ UNCHANGED notWifiListVars

\* handle_event(WifiKnownNetworks(known)): the cache replaced, then
\* rebuild_saved_networks
WifiKnownNetworks(known) ==
    /\ cached_known' = known
    /\ saved_networks' = rebuild_saved_networks(cached_known', cached_visible)
    /\ wifi_last' = "WifiKnownNetworks"
    /\ UNCHANGED <<wifi_networks, cached_visible>>
    /\ UNCHANGED notWifiListVars

\* the D-Bus paths of the networks a scan can report
NetworkPaths == {d.path : d \in WifiNetworkDatas}

\* the index of the first entry of a store that satisfies a test, 0 if none
FirstIndex(store, Test(_)) ==
    IF \E i \in DOMAIN store : Test(store[i])
    THEN CHOOSE i \in DOMAIN store :
            Test(store[i]) /\ \A j \in 1..(i - 1) : ~Test(store[j])
    ELSE 0

\* set_wifi_connecting: connecting = (path == its path) on every network
set_wifi_connecting(store, path) ==
    [i \in DOMAIN store |-> [store[i] EXCEPT !.connecting = (store[i].path = path)]]

\* clear_wifi_operations: the three local flags cleared on every network
clear_wifi_operations(store) ==
    [i \in DOMAIN store |->
        [store[i] EXCEPT !.connecting = FALSE, !.disconnecting = FALSE, !.forgetting = FALSE]]

\* update_wifi_connected: connected = (its path is the connected path)
update_wifi_connected(store, connected_path) ==
    [i \in DOMAIN store |-> [store[i] EXCEPT !.connected = (store[i].path = connected_path)]]

WifiListFrame == UNCHANGED <<saved_networks, cached_known, cached_visible>>

\* handle_event(WifiConnecting(path))
WifiConnecting(path) ==
    /\ wifi_networks' = set_wifi_connecting(wifi_networks, path)
    /\ wifi_last' = "WifiConnecting"
    /\ WifiListFrame
    /\ UNCHANGED notWifiListVars

\* handle_event(WifiConnected(path)): clear_wifi_operations, then
\* update_wifi_connected
WifiConnected(path) ==
    /\ wifi_networks' = update_wifi_connected(clear_wifi_operations(wifi_networks), path)
    /\ wifi_last' = "WifiConnected"
    /\ WifiListFrame
    /\ UNCHANGED notWifiListVars

\* handle_event(Error(msg)): clear_wifi_operations
WifiListError ==
    /\ wifi_networks' = clear_wifi_operations(wifi_networks)
    /\ wifi_last' = "Error"
    /\ WifiListFrame
    /\ UNCHANGED notWifiListVars

\* request_wifi_disconnect: disconnecting set on the first connected network
request_wifi_disconnect ==
    /\ LET i == FirstIndex(wifi_networks, LAMBDA n : n.connected) IN
       wifi_networks' = IF i = 0 THEN wifi_networks
                        ELSE [wifi_networks EXCEPT ![i].disconnecting = TRUE]
    /\ wifi_last' = "request_wifi_disconnect"
    /\ WifiListFrame
    /\ UNCHANGED notWifiListVars

\* request_wifi_forget(path): set_wifi_network_flag sets forgetting on the
\* first network with that path
request_wifi_forget(path) ==
    /\ LET i == FirstIndex(wifi_networks, LAMBDA n : n.path = path) IN
       wifi_networks' = IF i = 0 THEN wifi_networks
                        ELSE [wifi_networks EXCEPT ![i].forgetting = TRUE]
    /\ wifi_last' = "request_wifi_forget"
    /\ WifiListFrame
    /\ UNCHANGED notWifiListVars

WifiListNext ==
    \/ \E networks \in Snapshots(WifiNetworkDatas) : WifiNetworks(networks)
    \/ \E known \in Snapshots(KnownNetworkDatas) : WifiKnownNetworks(known)
    \/ \E path \in NetworkPaths : WifiConnecting(path)
    \/ \E path \in NetworkPaths \cup {None} : WifiConnected(path)
    \/ WifiListError
    \/ request_wifi_disconnect
    \/ \E path \in NetworkPaths : request_wifi_forget(path)

WifiListStart == WifiListIdle /\ ConnectIdle /\ BtIdle /\ UiIdle /\ StationIdle /\ StateIdle /\ AgentIdle /\ AdapterIdle /\ DispatchIdle /\ FlightIdle /\ SelectIdle /\ InitIdle /\ WifiErrorsIdle

SpecWifiLists == WifiListStart /\ [][WifiListNext]_vars

\* ------------------------------------------------------------------------
\* Claims about the UI WiFi lists (SpecWifiLists)
\* ------------------------------------------------------------------------

\* C11: after any sequence of WifiNetworks and WifiKnownNetworks events no
\* entry of saved_networks has the (name, type) of an entry of wifi_networks
C11_SavedNotVisible ==
    \A i \in 1..Len(saved_networks) : \A j \in 1..Len(wifi_networks) :
        <<saved_networks[i].name, saved_networks[i].network_type>>
            # <<wifi_networks[j].name, wifi_networks[j].network_type>>

\* the local operation flags of a network
LocalFlags(n) == <<n.connecting, n.disconnecting, n.forgetting>>

\* C24: when the UI model handles a WifiNetworks snapshot that still has the
\* path of a network it holds, that network has the same local flags after
\* the refresh as before
C24_FlagsSurviveRefresh ==
    [][wifi_last' = "WifiNetworks" =>
          \A i \in DOMAIN wifi_networks : \A j \in DOMAIN wifi_networks' :
              wifi_networks'[j].path = wifi_networks[i].path =>
                  LocalFlags(wifi_networks'[j]) = LocalFlags(wifi_networks[i])]_vars

\* C25: a local flag that is set on a network the model still holds is
\* cleared only when WifiConnected or Error is handled, never by a progress
\* notice or a list snapshot
C25_FlagsClearedByConfirmation ==
    [][(\E i \in DOMAIN wifi_networks : \E j \in DOMAIN wifi_networks' : \E f \in 1..3 :
            /\ wifi_networks'[j].path = wifi_networks[i].path
            /\ LocalFlags(wifi_networks[i])[f]
            /\ \A k \in DOMAIN wifi_networks' :
                  wifi_networks'[k].path = wifi_networks[i].path =>
                      ~LocalFlags(wifi_networks'[k])[f])
          => wifi_last' \in {"WifiConnected", "Error"}]_vars

\* C11 happens: a known network is held back because a visible network has
\* its (name, type), while another known network is listed as saved
C11_Witness ==
    /\ Len(saved_networks) = 1
    /\ Len(cached_known) = 2
    /\ \E i \in 1..2 : \E j \in 1..Len(wifi_networks) :
        /\ cached_known[i].name = wifi_networks[j].name
        /\ cached_known[i].network_type = wifi_networks[j].network_type


\* ------------------------------------------------------------------------
\* The canonical state of a WifiNetwork (src/backend/wifi/network.rs) and of
\* a BtDevice (src/backend/bluetooth/device.rs), over every flag combination
\* ------------------------------------------------------------------------

\* WifiNetwork::state with the connected test moved to the top
WifiNetwork_state_ConnectedFirst(n) ==
    IF n.connected THEN "Connected"
    ELSE IF n.forgetting THEN "Forgetting"
    ELSE IF n.disconnecting THEN "Disconnecting"
    ELSE IF n.connecting THEN "Connecting"
    ELSE IF n.known /\ n.offline THEN "SavedOffline"
    ELSE IF n.known THEN "Saved"
    ELSE "Available"

\* WifiNetwork::state
WifiNetwork_state(n) ==
    IF n.forgetting THEN "Forgetting"
    ELSE IF n.disconnecting THEN "Disconnecting"
    ELSE IF n.connecting THEN "Connecting"
    ELSE IF n.connected THEN "Connected"
    ELSE IF n.known /\ n.offline THEN "SavedOffline"
    ELSE IF n.known THEN "Saved"
    ELSE "Available"

\* any WifiNetwork and any BtDevice, before a state is asked for
StateInit ==
    /\ network \in [{"forgetting", "disconnecting", "connecting", "connected", "known",
                     "offline"} -> BOOLEAN]
    /\ btdev \in [{"removing", "disconnecting", "connecting", "connected", "paired"}
                    -> BOOLEAN]
    /\ wifi_state = "none" /\ bt_state = "none"

\* a caller asks the network for its state
WifiNetworkStateCall ==
    /\ wifi_state' = WifiNetwork_state(network)
    /\ UNCHANGED <<network, btdev, bt_state>>
    /\ UNCHANGED notStateVars

\* a caller asks the device for its state
BtDeviceStateCall ==
    /\ bt_state' = BtDeviceState(btdev)
    /\ UNCHANGED <<network, btdev, wifi_state>>
    /\ UNCHANGED notStateVars

StateNext == WifiNetworkStateCall \/ BtDeviceStateCall

StateStart ==
    StateInit /\ ConnectIdle /\ BtIdle /\ UiIdle /\ StationIdle /\ WifiListIdle /\ AgentIdle /\ AdapterIdle /\ DispatchIdle /\ FlightIdle /\ SelectIdle /\ InitIdle /\ WifiErrorsIdle

SpecState == StateStart /\ [][StateNext]_vars

\* ------------------------------------------------------------------------
\* Claims about the canonical states (SpecState)
\* ------------------------------------------------------------------------

\* C12: for each of the 64 flag combinations WifiNetwork::state returns the
\* first applicable state in the order Forgetting > Disconnecting >
\* Connecting > Connected > SavedOffline (known and offline) > Saved (known)
\* > Available
C12_WifiFirstApplicable ==
    wifi_state # "none" =>
        LET order == << <<network.forgetting, "Forgetting">>,
                        <<network.disconnecting, "Disconnecting">>,
                        <<network.connecting, "Connecting">>,
                        <<network.connected, "Connected">>,
                        <<network.known /\ network.offline, "SavedOffline">>,
                        <<network.known, "Saved">>,
                        <<TRUE, "Available">> >>
            first == CHOOSE i \in 1..7 :
                        order[i][1] /\ \A j \in 1..(i - 1) : ~order[j][1]
        IN  wifi_state = order[first][2]

\* C12 happens: the state of a connected, known network that is being
\* disconnected has been computed
C12_Witness ==
    /\ wifi_state = "Disconnecting"
    /\ network.connected /\ network.known /\ network.connecting /\ ~network.forgetting

\* C13: for each of the 32 flag combinations BtDevice::state returns the
\* first applicable state in the order Removing > Disconnecting > connecting
\* (Pairing if not paired, else Connecting) > Connected > Paired > Discovered
C13_BtFirstApplicable ==
    bt_state # "none" =>
        LET order == << <<btdev.removing, "Removing">>,
                        <<btdev.disconnecting, "Disconnecting">>,
                        <<btdev.connecting /\ ~btdev.paired, "Pairing">>,
                        <<btdev.connecting /\ btdev.paired, "Connecting">>,
                        <<btdev.connected, "Connected">>,
                        <<btdev.paired, "Paired">>,
                        <<TRUE, "Discovered">> >>
            first == CHOOSE i \in 1..7 :
                        order[i][1] /\ \A j \in 1..(i - 1) : ~order[j][1]
        IN  bt_state = order[first][2]

\* C13 happens: the state of a paired, connected device with a connect in
\* progress has been computed
C13_Witness ==
    /\ bt_state = "Connecting"
    /\ btdev.paired /\ btdev.connected /\ btdev.connecting


\* ------------------------------------------------------------------------
\* The agents and the reply slots: IwdAgent (src/backend/wifi/iwd_agent.rs),
\* the bluer Agent of BluetoothBackend::create_agent
\* (src/backend/bluetooth/backend.rs) and the pending_*_response fields of
\* BackendState (src/backend/event_loop/state.rs)
\* ------------------------------------------------------------------------

\* agent callbacks the daemons invoke in one run
MaxCalls == 2

\* the callbacks that send a request to the loop
InteractiveKinds ==
    {"RequestPassphrase", "ConfirmPasskey", "RequestAuthorization", "RequestPinCode",
     "RequestPasskey"}
DisplayKinds == {"DisplayPasskey", "DisplayPinCode"}
PairingKinds == (InteractiveKinds \ {"RequestPassphrase"}) \cup DisplayKinds

\* the slot of BackendState a display-only request would fill if it filled one
PairingSlot_DisplayFills(kind) ==
    CASE kind \in {"ConfirmPasskey", "RequestAuthorization"} -> "pairing"
      [] kind \in {"RequestPinCode", "DisplayPinCode"} -> "pin"
      [] kind \in {"RequestPasskey", "DisplayPasskey"} -> "passkey"
      [] OTHER -> "none"

\* handle_bt_pairing_request: the slot of BackendState a request kind fills
PairingSlot(kind) ==
    CASE kind \in {"ConfirmPasskey", "RequestAuthorization"} -> "pairing"
      [] kind = "RequestPinCode" -> "pin"
      [] kind = "RequestPasskey" -> "passkey"
      [] OTHER -> "none"

\* the slot a callback's reply channel belongs to
Category(kind) == IF kind = "RequestPassphrase" THEN "passphrase" ELSE PairingSlot(kind)

\* the reply slots of BackendState by category
Slot(category) ==
    CASE category = "passphrase" -> pending_passphrase_response
      [] category = "pairing" -> pending_pairing_response
      [] category = "pin" -> pending_pin_response
      [] category = "passkey" -> pending_passkey_response
      [] OTHER -> 0

\* what the UI can answer
Passphrases == {None, "secret"}
Pins == {None, "0000"}
Passkeys == {None, "123456"}

\* an overwritten Option<oneshot::Sender> that stays alive
drop_sender_Kept(reply) == reply

\* an overwritten or dropped Option<oneshot::Sender>: the channel is closed
\* unless a value was sent
drop_sender(reply) == IF reply = <<"open">> THEN <<"closed">> ELSE reply

\* request_passphrase reporting a cancelled entry as a closed channel
request_passphrase_Cancelled(reply) ==
    CASE reply = <<"sent", None>> -> <<"Err", "Failed">>
      [] reply[1] = "sent" -> <<"Ok", reply[2]>>
      [] OTHER -> <<"Err", "Failed">>

\* IwdAgent::request_passphrase: what it returns for what response_rx yields
request_passphrase(reply) ==
    CASE reply = <<"sent", None>> -> <<"Err", "AuthFailed">>
      [] reply[1] = "sent" -> <<"Ok", reply[2]>>
      [] OTHER -> <<"Err", "Failed">>

\* a bluer callback that takes a closed channel for consent
pairing_callback_Consents(reply) ==
    IF reply[1] = "sent" THEN reply[2] ELSE <<"Ok", "unit">>

\* the bluer callbacks: response_rx.await.unwrap_or(Err(ReqError::Rejected))
pairing_callback(reply) ==
    IF reply[1] = "sent" THEN reply[2] ELSE <<"Err", "Rejected">>

\* the calls whose sender BackendState holds: taken by the loop, neither
\* answered nor closed
Outstanding(category) ==
    { c \in 1..Len(call) :
        /\ Category(call[c].kind) = category
        /\ call[c].pc = "waiting" /\ call[c].taken /\ call[c].reply = <<"open">> }

\* the senders in `dropped` are dropped
DropSenders(calls, dropped) ==
    [c \in 1..Len(calls) |->
        IF c \in dropped THEN [calls[c] EXCEPT !.reply = drop_sender(@)] ELSE calls[c]]

\* a reply slot is assigned, the others keep their value
SetSlot(category, value) ==
    /\ pending_passphrase_response' =
        IF category = "passphrase" THEN value ELSE pending_passphrase_response
    /\ pending_pairing_response' =
        IF category = "pairing" THEN value ELSE pending_pairing_response
    /\ pending_pin_response' =
        IF category = "pin" THEN value ELSE pending_pin_response
    /\ pending_passkey_response' =
        IF category = "passkey" THEN value ELSE pending_passkey_response

\* a daemon invokes an agent callback: the request is queued for the loop and
\* the callback waits on response_rx; a display callback returns at once; with
\* the loop gone the send fails and the callback returns the error
AgentRequest(kind) ==
    /\ Len(call) < MaxCalls
    /\ LET c == Len(call) + 1
           failed == IF kind = "RequestPassphrase" THEN <<"Err", "Failed">>
                     ELSE <<"Err", "Rejected">>
       IN
        /\ call' = Append(call,
              IF kind \in DisplayKinds
              THEN [kind |-> kind, pc |-> "returned", taken |-> FALSE,
                    reply |-> <<"none">>, result |-> <<"Ok", "unit">>]
              ELSE IF loopAction = "Continue"
              THEN [kind |-> kind, pc |-> "waiting", taken |-> FALSE,
                    reply |-> <<"open">>, result |-> <<"none">>]
              ELSE [kind |-> kind, pc |-> "returned", taken |-> FALSE,
                    reply |-> <<"none">>, result |-> failed])
        /\ passphrase_rx' = IF loopAction = "Continue" /\ kind = "RequestPassphrase"
                            THEN Append(passphrase_rx, c) ELSE passphrase_rx
        /\ bt_pairing_rx' = IF loopAction = "Continue" /\ kind \in PairingKinds
                            THEN Append(bt_pairing_rx, c) ELSE bt_pairing_rx
    /\ UNCHANGED <<pending_passphrase_response, pending_pairing_response,
                   pending_pin_response, pending_passkey_response, agOut, loopAction,
                   agent_notify>>
    /\ UNCHANGED notAgentVars

\* the slot of `category` is assigned the sender of call c; the sender it held is dropped
FillSlot(category, c) ==
    /\ call' = [DropSenders(call, {Slot(category)} \ {0}) EXCEPT ![c].taken = TRUE]
    /\ SetSlot(category, c)

\* handle_event(LoopEvent::PassphraseRequest)
PassphraseRequest ==
    /\ loopAction = "Continue" /\ passphrase_rx # <<>>
    /\ LET c == Head(passphrase_rx) IN
        /\ FillSlot("passphrase", c)
        /\ agOut' = Append(agOut, Ev("PassphraseRequest", c))
    /\ passphrase_rx' = Tail(passphrase_rx)
    /\ UNCHANGED <<bt_pairing_rx, loopAction, agent_notify>>
    /\ UNCHANGED notAgentVars

\* handle_bt_pairing_request
handle_bt_pairing_request ==
    /\ loopAction = "Continue" /\ bt_pairing_rx # <<>>
    /\ LET c == Head(bt_pairing_rx)
           slot == PairingSlot(call[c].kind)
       IN
        /\ IF slot = "none"
           THEN /\ call' = [call EXCEPT ![c].taken = TRUE]
                /\ UNCHANGED <<pending_passphrase_response, pending_pairing_response,
                               pending_pin_response, pending_passkey_response>>
           ELSE FillSlot(slot, c)
        /\ agOut' = Append(agOut, Ev("BtPairing", c))
    /\ bt_pairing_rx' = Tail(bt_pairing_rx)
    /\ UNCHANGED <<passphrase_rx, loopAction, agent_notify>>
    /\ UNCHANGED notAgentVars

\* a response command: the slot is taken and the value sent on its channel,
\* if the slot holds one
Respond(category, value) ==
    /\ loopAction = "Continue"
    /\ LET c == Slot(category) IN
        /\ call' = IF c = 0 THEN call ELSE [call EXCEPT ![c].reply = <<"sent", value>>]
        /\ SetSlot(category, 0)
    /\ UNCHANGED <<passphrase_rx, bt_pairing_rx, agOut, loopAction, agent_notify>>
    /\ UNCHANGED notAgentVars

\* handle_command(PassphraseResponse { passphrase })
PassphraseResponse(passphrase) == Respond("passphrase", passphrase)

\* handle_command(BtPairingResponse { accept })
BtPairingResponse(accept) ==
    Respond("pairing",
            IF accept THEN <<"Ok", "unit">> ELSE <<"Err", "Rejected">>)

\* handle_command(BtPairingPinResponse { pin })
BtPairingPinResponse(pin) ==
    Respond("pin",
            IF pin = None THEN <<"Err", "Rejected">> ELSE <<"Ok", pin>>)

\* handle_command(BtPairingPasskeyResponse { passkey })
BtPairingPasskeyResponse(passkey) ==
    Respond("passkey",
            IF passkey = None THEN <<"Err", "Rejected">> ELSE <<"Ok", passkey>>)

\* a waiting callback sees its response_rx resolve and returns to the daemon
AgentReturn(c) ==
    /\ c \in 1..Len(call)
    /\ call[c].pc = "waiting" /\ call[c].reply # <<"open">>
    /\ call' = [call EXCEPT ![c].pc = "returned",
                            ![c].result = IF call[c].kind = "RequestPassphrase"
                                          THEN request_passphrase(call[c].reply)
                                          ELSE pairing_callback(call[c].reply)]
    /\ UNCHANGED <<passphrase_rx, bt_pairing_rx, pending_passphrase_response,
                   pending_pairing_response, pending_pin_response,
                   pending_passkey_response, agOut, loopAction, agent_notify>>
    /\ UNCHANGED notAgentVars

\* IwdAgent::cancel and IwdAgent::release
AgentNotify(callback) ==
    /\ agent_notify' = <<callback, "Ok">>
    /\ UNCHANGED <<call, passphrase_rx, bt_pairing_rx, pending_passphrase_response,
                   pending_pairing_response, pending_pin_response,
                   pending_passkey_response, agOut, loopAction>>
    /\ UNCHANGED notAgentVars

\* handle_command(Shutdown): LoopAction::Break; BackendState and EventStreams
\* go out of scope, with every sender they hold
AgentLoopShutdown ==
    /\ loopAction = "Continue"
    /\ loopAction' = "Break"
    /\ call' = DropSenders(call, { c \in 1..Len(call) : call[c].pc = "waiting" })
    /\ pending_passphrase_response' = 0 /\ pending_pairing_response' = 0
    /\ pending_pin_response' = 0 /\ pending_passkey_response' = 0
    /\ passphrase_rx' = <<>> /\ bt_pairing_rx' = <<>>
    /\ UNCHANGED <<agOut, agent_notify>>
    /\ UNCHANGED notAgentVars

AgentNext ==
    \/ \E kind \in InteractiveKinds \cup DisplayKinds : AgentRequest(kind)
    \/ PassphraseRequest
    \/ handle_bt_pairing_request
    \/ \E passphrase \in Passphrases : PassphraseResponse(passphrase)
    \/ \E accept \in BOOLEAN : BtPairingResponse(accept)
    \/ \E pin \in Pins : BtPairingPinResponse(pin)
    \/ \E passkey \in Passkeys : BtPairingPasskeyResponse(passkey)
    \/ \E c \in 1..MaxCalls : AgentReturn(c)
    \/ \E callback \in {"cancel", "release"} : AgentNotify(callback)
    \/ AgentLoopShutdown

AgentStart ==
    AgentIdle /\ ConnectIdle /\ BtIdle /\ UiIdle /\ StationIdle /\ WifiListIdle /\ StateIdle /\ AdapterIdle /\ DispatchIdle /\ FlightIdle /\ SelectIdle /\ InitIdle /\ WifiErrorsIdle

SpecAgent == AgentStart /\ [][AgentNext]_vars

\* ------------------------------------------------------------------------
\* Claims about the agents and the reply slots (SpecAgent)
\* ------------------------------------------------------------------------

\* C14: after every step BackendState holds per category at most one
\* outstanding reply channel, the one in the slot; when the loop takes a
\* request whose category has an unanswered request in the slot, the handler
\* returns Continue and exactly the new request's channel is outstanding
C14_OneReplyChannel ==
    [][/\ \A k \in {"passphrase", "pairing", "pin", "passkey"} :
            Outstanding(k)' = {Slot(k)'} \ {0}
       /\ \A c \in 1..Len(call) :
            LET k == Category(call[c].kind) IN
            (~call[c].taken /\ call'[c].taken /\ Slot(k) # 0) =>
                /\ loopAction' = "Continue"
                /\ Slot(k)' = c
                /\ Outstanding(k)' = {c}]_vars

\* C14 happens: a ConfirmPasskey request was overwritten by a newer
\* RequestAuthorization while unanswered, and the loop runs on
C14_Witness ==
    /\ loopAction = "Continue"
    /\ \E c \in 1..Len(call) :
        /\ call[c].kind = "ConfirmPasskey" /\ call[c].reply = <<"closed">>
        /\ pending_pairing_response > c
        /\ call[pending_pairing_response].kind = "RequestAuthorization"

\* C15: handling a pairing request assigns the slot of its kind and no other
\* (ConfirmPasskey, RequestAuthorization: pairing; RequestPinCode: PIN;
\* RequestPasskey: passkey), assigns none for DisplayPasskey and
\* DisplayPinCode, and sends exactly one BtPairing event
C15_OneSlotPerRequest ==
    [][\A c \in 1..Len(call) :
        (~call[c].taken /\ call'[c].taken /\ call[c].kind \in PairingKinds) =>
        LET kind == call[c].kind
            assigned == { k \in {"passphrase", "pairing", "pin", "passkey"} :
                            Slot(k)' # Slot(k) }
            expected == CASE kind \in {"ConfirmPasskey", "RequestAuthorization"} -> {"pairing"}
                          [] kind = "RequestPinCode" -> {"pin"}
                          [] kind = "RequestPasskey" -> {"passkey"}
                          [] OTHER -> {}
        IN  /\ assigned = expected
            /\ \A k \in expected : Slot(k)' = c
            /\ agOut' = Append(agOut, Ev("BtPairing", c))]_vars

\* C15 happens: a DisplayPinCode request was handled while the PIN slot held
\* the sender of an earlier RequestPinCode
C15_Witness ==
    \E c \in 1..Len(call) :
        /\ call[c].kind = "DisplayPinCode" /\ call[c].taken
        /\ pending_pin_response # 0
        /\ pending_pin_response < c

\* C16: a request_passphrase call answered with None returns the
\* authentication-failure error, one answered with Some(p) returns p, and
\* cancel and release return success
C16_PassphraseAnswer ==
    /\ \A c \in 1..Len(call) :
        (call[c].kind = "RequestPassphrase" /\ call[c].pc = "returned"
            /\ call[c].reply[1] = "sent") =>
            call[c].result = IF call[c].reply[2] = None THEN <<"Err", "AuthFailed">>
                             ELSE <<"Ok", call[c].reply[2]>>
    /\ agent_notify # <<"none">> => agent_notify[2] = "Ok"

\* C16 happens: one request_passphrase call has returned after a None answer
\* and another after a passphrase, and cancel has been called
C16_Witness ==
    /\ agent_notify = <<"cancel", "Ok">>
    /\ \E c, d \in 1..Len(call) :
        /\ call[c].kind = "RequestPassphrase" /\ call[c].pc = "returned"
        /\ call[c].reply = <<"sent", None>>
        /\ call[d].kind = "RequestPassphrase" /\ call[d].pc = "returned"
        /\ call[d].reply = <<"sent", "secret">>


\* the loop takes every request that is queued (next_event polls both
\* queues on every turn), and tokio polls a callback whose response_rx has
\* resolved; the UI is free never to answer
AgentFairness ==
    /\ WF_vars(PassphraseRequest)
    /\ WF_vars(handle_bt_pairing_request)
    /\ \A c \in 1..MaxCalls : WF_vars(AgentReturn(c))

SpecAgentLive == AgentStart /\ [][AgentNext]_vars /\ AgentFairness

ReplyCategories == {"passphrase", "pairing", "pin", "passkey"}

\* callback c waits on its response_rx
Waiting(c) == c \in 1..Len(call) /\ call[c].pc = "waiting"

\* callback c waits and its sender is the one in the slot of its category:
\* the next response command of the category answers it
Holder(c) == Waiting(c) /\ Slot(Category(call[c].kind)) = c

\* what a callback returns to the daemon when its channel was closed unanswered
RejectionOf(kind) ==
    IF kind = "RequestPassphrase" THEN <<"Err", "Failed">> ELSE <<"Err", "Rejected">>

MaxDevices == 2

\* WifiSwitchAdapter commands that wait in the command queue at one time
MaxSwitches == 1

DevicePaths == 1..MaxDevices

\* the elements of a sequence
Elements(seq) == {seq[i] : i \in DOMAIN seq}

\* the sequences without repetition over a set of device paths
Orderings(S) ==
    {seq \in UNION {[1..n -> S] : n \in 0..Cardinality(S)} :
        \A i, j \in DOMAIN seq : i # j => seq[i] # seq[j]}

\* a sequence without one device path
Without(seq, path) == SelectSeq(seq, LAMBDA x : x # path)

\* find_all_iwd_devices: the Device objects iwd exports, or the error of
\* the bus call
find_all_iwd_devices == {<<"Ok", iwd_objects>>, <<"Err">>}

\* Option<Vec<..>>::first as a device path, 0 = None
first(infos) == IF infos = <<>> THEN 0 ELSE infos[1]

\* BackendEvent::WifiDevices { devices, active_path }
WifiDevicesEvent(devices, active) ==
    Ev("WifiDevices", [devices |-> devices, active_path |-> active])

\* send_wifi_initial_state: powered, then scanning and networks of a
\* powered device with a Station interface, then the known networks
send_wifi_initial_state(device_ok, powered, station_ok) ==
    IF ~device_ok THEN <<>>
    ELSE <<Ev("WifiPowered", powered)>>
         \o (IF powered /\ station_ok
                THEN <<Ev("WifiScanning", FALSE), Ev("WifiNetworks", <<"snapshot">>)>>
                ELSE <<>>)
         \o <<Ev("WifiKnownNetworks", "snapshot")>>

\* the three device-scoped streams after create_device_proxy and
\* setup_station_streams for a device: a proxy that cannot be built
\* leaves None
RebuildStreams(path, device_ok, station_ok) ==
    /\ device_powered_stream' = IF device_ok THEN path ELSE 0
    /\ station_scanning_stream' = IF station_ok THEN path ELSE 0
    /\ station_state_stream' = IF station_ok THEN path ELSE 0

\* run_backend: the inventory is the enumeration, or empty when it fails;
\* the initial adapter is a device that is already connected, else the first
AdapterInit ==
    /\ iwd_objects \in Orderings(DevicePaths)
    /\ iwd_seen = Elements(iwd_objects)
    /\ iwd_interfaces_added = <<>> /\ iwd_interfaces_removed = <<>>
    /\ switch_rx = <<>>
    /\ \E result \in find_all_iwd_devices :
          /\ wifi_device_infos = IF result[1] = "Ok" THEN result[2] ELSE <<>>
          /\ wifi \in IF wifi_device_infos = <<>> THEN {0}
                      ELSE Elements(wifi_device_infos)
    /\ device_powered_stream \in {0, wifi}
    /\ station_scanning_stream \in {0, wifi}
    /\ station_state_stream = station_scanning_stream
    /\ adapter_evt = <<WifiDevicesEvent(wifi_device_infos, wifi)>>
    /\ reported = Elements(wifi_device_infos)
    /\ adapter_handled = [event |-> "none", object_path |-> 0, active_removed |-> FALSE]

\* iwd exports a new device and signals InterfacesAdded
IwdAddsDevice(path) ==
    /\ path \notin iwd_seen
    /\ iwd_objects' = Append(iwd_objects, path)
    /\ iwd_seen' = iwd_seen \cup {path}
    /\ iwd_interfaces_added' = Append(iwd_interfaces_added, path)
    /\ UNCHANGED <<iwd_interfaces_removed, switch_rx, wifi, wifi_device_infos,
                   device_powered_stream, station_scanning_stream,
                   station_state_stream, adapter_evt, reported, adapter_handled>>
    /\ UNCHANGED notAdapterVars

\* iwd drops a device and signals InterfacesRemoved
IwdRemovesDevice(path) ==
    /\ path \in Elements(iwd_objects)
    /\ iwd_objects' = Without(iwd_objects, path)
    /\ iwd_interfaces_removed' = Append(iwd_interfaces_removed, path)
    /\ UNCHANGED <<iwd_seen, iwd_interfaces_added, switch_rx, wifi, wifi_device_infos,
                   device_powered_stream, station_scanning_stream,
                   station_state_stream, adapter_evt, reported, adapter_handled>>
    /\ UNCHANGED notAdapterVars

\* the UI sends WifiSwitchAdapter for a device it has been told of
SendWifiSwitchAdapter(path) ==
    /\ Len(switch_rx) < MaxSwitches
    /\ path \in reported
    /\ switch_rx' = Append(switch_rx, path)
    /\ UNCHANGED <<iwd_objects, iwd_seen, iwd_interfaces_added, iwd_interfaces_removed,
                   wifi, wifi_device_infos, device_powered_stream,
                   station_scanning_stream, station_state_stream, adapter_evt,
                   reported, adapter_handled>>
    /\ UNCHANGED notAdapterVars

\* LoopEvent::IwdDeviceAdded: handle_iwd_device_added
handle_iwd_device_added ==
    /\ iwd_interfaces_added # <<>>
    /\ iwd_interfaces_added' = Tail(iwd_interfaces_added)
    /\ \E result \in find_all_iwd_devices :
          IF result[1] = "Ok"
          THEN /\ wifi_device_infos' = result[2]
               /\ adapter_evt' = <<WifiDevicesEvent(result[2], wifi)>>
               /\ reported' = reported \cup Elements(result[2])
          ELSE /\ adapter_evt' = <<>>
               /\ UNCHANGED <<wifi_device_infos, reported>>
    /\ adapter_handled' = [event |-> "IwdDeviceAdded",
                           object_path |-> Head(iwd_interfaces_added),
                           active_removed |-> FALSE]
    /\ UNCHANGED <<iwd_objects, iwd_seen, iwd_interfaces_removed, switch_rx, wifi,
                   device_powered_stream, station_scanning_stream,
                   station_state_stream>>
    /\ UNCHANGED notAdapterVars

\* LoopEvent::IwdDeviceRemoved: handle_iwd_device_removed
handle_iwd_device_removed ==
    /\ iwd_interfaces_removed # <<>>
    /\ iwd_interfaces_removed' = Tail(iwd_interfaces_removed)
    /\ LET removed_path == Head(iwd_interfaces_removed)
           active_removed == wifi # 0 /\ wifi = removed_path
       IN  /\ \E result \in find_all_iwd_devices :
                 wifi_device_infos' = IF result[1] = "Ok" THEN result[2]
                                      ELSE wifi_device_infos
           /\ IF active_removed
              THEN IF wifi_device_infos' # <<>>
                   THEN \E device_ok, powered, station_ok \in BOOLEAN :
                           /\ wifi' = first(wifi_device_infos')
                           /\ RebuildStreams(wifi', device_ok, station_ok)
                           /\ adapter_evt' =
                                 send_wifi_initial_state(device_ok, powered, station_ok)
                                 \o <<WifiDevicesEvent(wifi_device_infos', wifi')>>
                   ELSE /\ wifi' = 0
                        /\ device_powered_stream' = 0
                        /\ station_scanning_stream' = 0
                        /\ station_state_stream' = 0
                        /\ adapter_evt' = <<Ev("WifiPowered", FALSE),
                                            Ev("WifiNetworks", <<>>),
                                            WifiDevicesEvent(wifi_device_infos', 0)>>
              ELSE /\ adapter_evt' = <<WifiDevicesEvent(wifi_device_infos', wifi)>>
                   /\ UNCHANGED <<wifi, device_powered_stream,
                                  station_scanning_stream, station_state_stream>>
           /\ reported' = reported \cup Elements(wifi_device_infos')
           /\ adapter_handled' = [event |-> "IwdDeviceRemoved",
                                  object_path |-> removed_path,
                                  active_removed |-> active_removed]
    /\ UNCHANGED <<iwd_objects, iwd_seen, iwd_interfaces_added, switch_rx>>
    /\ UNCHANGED notAdapterVars

\* Command::WifiSwitchAdapter: handle_wifi_switch_adapter
handle_wifi_switch_adapter ==
    /\ switch_rx # <<>>
    /\ switch_rx' = Tail(switch_rx)
    /\ \E device_ok, powered, station_ok \in BOOLEAN :
          /\ wifi' = Head(switch_rx)
          /\ RebuildStreams(wifi', device_ok, station_ok)
          /\ adapter_evt' = send_wifi_initial_state(device_ok, powered, station_ok)
    /\ adapter_handled' = [event |-> "WifiSwitchAdapter",
                           object_path |-> Head(switch_rx),
                           active_removed |-> FALSE]
    /\ UNCHANGED <<iwd_objects, iwd_seen, iwd_interfaces_added, iwd_interfaces_removed,
                   wifi_device_infos, reported>>
    /\ UNCHANGED notAdapterVars

AdapterNext ==
    \/ \E path \in DevicePaths : IwdAddsDevice(path)
    \/ \E path \in DevicePaths : IwdRemovesDevice(path)
    \/ \E path \in DevicePaths : SendWifiSwitchAdapter(path)
    \/ handle_iwd_device_added
    \/ handle_iwd_device_removed
    \/ handle_wifi_switch_adapter

AdapterStart ==
    AdapterInit /\ ConnectIdle /\ BtIdle /\ UiIdle /\ StationIdle /\ WifiListIdle /\ StateIdle /\ AgentIdle /\ DispatchIdle /\ FlightIdle /\ SelectIdle /\ InitIdle /\ WifiErrorsIdle

SpecAdapters == AdapterStart /\ [][AdapterNext]_vars

\* the events of one type the last handler sent
AdapterEvents(type) ==
    {adapter_evt[i].arg : i \in {j \in DOMAIN adapter_evt : adapter_evt[j].type = type}}

\* the three device-scoped streams were rebuilt for a device: none is left
\* on another device (a proxy iwd refuses leaves its slot empty)
StreamsRebuiltFor(path) ==
    /\ device_powered_stream \in {0, path}
    /\ station_scanning_stream \in {0, path}
    /\ station_state_stream \in {0, path}

\* C19: after the core has handled IwdDeviceRemoved for the active adapter,
\* the active adapter is the first device of the re-enumerated inventory and
\* the three device-scoped streams are rebuilt for it; if it is empty, no adapter
\* is active, the three streams are dropped and WifiPowered(false) and
\* WifiNetworks([]) were sent; the active adapter is never the removed device
C19_RemovedActiveReplaced ==
    (adapter_handled.event = "IwdDeviceRemoved" /\ adapter_handled.active_removed) =>
        /\ wifi # adapter_handled.object_path
        /\ wifi = first(wifi_device_infos)
        /\ IF wifi # 0
           THEN StreamsRebuiltFor(wifi)
           ELSE /\ device_powered_stream = 0
                /\ station_scanning_stream = 0
                /\ station_state_stream = 0
                /\ FALSE \in AdapterEvents("WifiPowered")
                /\ <<>> \in AdapterEvents("WifiNetworks")

\* C20: whenever the inventory is not empty, an adapter is active and it is
\* a member of the inventory, and every WifiDevices event reports such an
\* active_path with its devices
C20_OneActiveOfInventory ==
    /\ wifi_device_infos # <<>> => wifi \in Elements(wifi_device_infos)
    /\ \A e \in AdapterEvents("WifiDevices") :
          e.devices # <<>> => e.active_path \in Elements(e.devices)


\* ------------------------------------------------------------------------
\* The adapter switch and the connect tasks of the previous adapter:
\* handle_wifi_switch_adapter (src/backend/event_loop/state.rs) calls
\* WifiBackend::shutdown (src/backend/wifi_backend.rs) on the WifiBackend it
\* replaces.  The connect machine above is the WifiBackend of the adapter
\* that is active before the switch; after the switch its variables are what
\* the tasks it spawned still hold (pending_connect is an Arc the tasks share)
\* ------------------------------------------------------------------------

\* variables neither the connect machine nor the adapter selection owns
notSwitchVars == <<btVars, uiVars, stationVars, wifiListVars, stateVars, agentVars, dispatchVars, flightVars, selectVars, initVars, wifiErrorVars>>

\* two devices, the first active, no hot-plug signal pending
SwitchInit ==
    /\ WifiConnectInit
    /\ AdapterInit
    /\ iwd_objects = <<1, 2>>
    /\ wifi = 1

\* handle_wifi_switch_adapter, lines 479-481: w.shutdown() on the previous
\* WifiBackend takes the handle out of its slot and aborts it
shutdown_previous ==
    /\ connPc = "idle"
    /\ connPc' = "stopped"
    /\ pending_connect' = 0
    /\ slotAccess' = "shutdown"
    /\ IF pending_connect # 0
       THEN /\ abortCount' = [abortCount EXCEPT ![pending_connect] = @ + 1]
            /\ task' = [task EXCEPT ![pending_connect] = abort(task[pending_connect])]
       ELSE UNCHANGED <<abortCount, task>>
    /\ UNCHANGED <<device_path, hasStation, daemonConnected, connPath, nCalls>>

\* Command::WifiSwitchAdapter, the whole handler: shutdown of the previous
\* WifiBackend, a new WifiBackend for the device, the three streams rebuilt,
\* the initial state of the device sent
WifiSwitchAdapter ==
    /\ switch_rx # <<>>
    /\ switch_rx' = Tail(switch_rx)
    /\ shutdown_previous
    /\ \E device_ok, powered, station_ok \in BOOLEAN :
          /\ wifi' = Head(switch_rx)
          /\ RebuildStreams(wifi', device_ok, station_ok)
          /\ adapter_evt' = send_wifi_initial_state(device_ok, powered, station_ok)
    /\ adapter_handled' = [event |-> "WifiSwitchAdapter",
                           object_path |-> Head(switch_rx),
                           active_removed |-> FALSE]
    /\ UNCHANGED <<iwd_objects, iwd_seen, iwd_interfaces_added, iwd_interfaces_removed,
                   wifi_device_infos, reported>>
    /\ UNCHANGED notSwitchVars

SwitchNext ==
    \/ \E p \in ConnectPaths : ConnectTakeAbort(p)
    \/ ConnectSpawn
    \/ ConnectStore
    \/ \E t \in TaskIds, ok \in BOOLEAN : TaskStart(t, ok)
    \/ \E t \in TaskIds : DaemonReply(t, "ok", <<>>)
    \/ \E t \in TaskIds, e \in ConnectErrors : DaemonReply(t, "err", e)
    \/ \E t \in TaskIds : DaemonReply(t, "timeout", <<>>)
    \/ \E t \in TaskIds : TaskQueryAnswer(t)
    \/ \E t \in TaskIds : TaskClear(t)
    \/ \E t \in TaskIds : TaskCancel(t)
    \/ \E path \in DevicePaths : SendWifiSwitchAdapter(path)
    \/ WifiSwitchAdapter

SwitchStart ==
    SwitchInit /\ BtIdle /\ UiIdle /\ StationIdle /\ WifiListIdle /\ StateIdle /\ AgentIdle /\ DispatchIdle /\ FlightIdle /\ SelectIdle /\ InitIdle /\ WifiErrorsIdle

SpecSwitch == SwitchStart /\ [][SwitchNext]_vars

\* C34: once WifiSwitchAdapter{device_path} has been handled, no connect task
\* started on the previous adapter is left unfinished and un-aborted, the
\* active adapter is device_path, and the powered, scanning and state streams
\* belong to device_path only
C34_SwitchTearsDown ==
    adapter_handled.event = "WifiSwitchAdapter" =>
        /\ \A t \in TaskIds : ~Live(t)
        /\ wifi = adapter_handled.object_path
        /\ StreamsRebuiltFor(adapter_handled.object_path)

\* the adapter and stream part of C34 alone
SwitchedStreams ==
    adapter_handled.event = "WifiSwitchAdapter" =>
        /\ wifi = adapter_handled.object_path
        /\ StreamsRebuiltFor(adapter_handled.object_path)


\* ------------------------------------------------------------------------
\* What BackendState::handle_event returns (src/backend/event_loop/state.rs):
\* one turn of the event loop per step, for every LoopEvent and every
\* BackendCommand, with a well-formed or a malformed argument and with the
\* daemon call of the handler succeeding or failing
\* ------------------------------------------------------------------------

\* enum LoopEvent
LoopEventKinds ==
    {"WifiPoweredChanged", "WifiScanningChanged", "WifiStationStateChanged",
     "PassphraseRequest", "IwdDeviceAdded", "IwdDeviceRemoved", "BtDiscoveryEvent",
     "BtAdapterEvent", "BtDevicePropertyChanged", "BtPairingRequest", "BtScanTimeout",
     "Command", "CommandChannelClosed"}

\* enum BackendCommand
BackendCommands ==
    {"Shutdown", "WifiScan", "WifiConnect", "WifiDisconnect", "WifiForget",
     "WifiForgetKnown", "WifiSetPowered", "WifiSwitchAdapter", "PassphraseResponse",
     "BtScan", "BtStopScan", "BtConnect", "BtDisconnect", "BtPair", "BtRemove",
     "BtSetAlias", "BtSetTrusted", "BtSetPowered", "BtSetDiscoverable",
     "BtPairingResponse", "BtPairingPinResponse", "BtPairingPasskeyResponse"}

\* the commands that carry a D-Bus object path or a Bluetooth address as a string
StringArgCommands ==
    {"WifiConnect", "WifiForget", "WifiForgetKnown", "WifiSwitchAdapter",
     "BtConnect", "BtDisconnect", "BtPair", "BtRemove", "BtSetAlias", "BtSetTrusted"}

\* what the loop can be given in one turn: the event, the command it carries,
\* whether the string argument parses, whether the daemon call succeeds
LoopInputs ==
    {i \in [event : LoopEventKinds, cmd : BackendCommands \cup {None},
            arg_valid : BOOLEAN, call_ok : BOOLEAN] :
        /\ i.cmd # None <=> i.event = "Command"
        /\ ~i.arg_valid => i.cmd \in StringArgCommands}

\* device_path.try_into().unwrap() of handle_wifi_switch_adapter: a panic
\* on a string that is no object path
unwrap(ok) == IF ok THEN "Continue" ELSE "Panic"

\* BackendState::handle_command: Break on Shutdown; a Bluetooth address that
\* does not parse makes the backend return early, a failing daemon call is
\* reported as an event
BackendState_handle_command(i, wifi_some, bt_some) ==
    IF i.cmd = "Shutdown" THEN "Break"
    ELSE IF i.cmd = "WifiSwitchAdapter" THEN unwrap(i.arg_valid)
    ELSE "Continue"

\* BackendState::handle_event
BackendState_handle_event(i, wifi_some, bt_some) ==
    IF i.event = "Command" THEN BackendState_handle_command(i, wifi_some, bt_some)
    ELSE IF i.event = "CommandChannelClosed" THEN "Break"
    ELSE "Continue"

\* init: each backend is there or not; nothing handled yet
DispatchInit ==
    /\ backends \in [wifi : BOOLEAN, bt : BOOLEAN]
    /\ loop_event = [event |-> "none", cmd |-> None, arg_valid |-> TRUE, call_ok |-> TRUE]
    /\ loop_action = "Continue"

\* one turn of the loop: next_event returns an event and handle_event
\* handles it; the loop takes its next turn on Continue only
LoopTurn(i) ==
    /\ loop_action = "Continue"
    /\ loop_event' = i
    /\ loop_action' = BackendState_handle_event(i, backends.wifi, backends.bt)
    /\ UNCHANGED backends
    /\ UNCHANGED notDispatchVars

DispatchNext == \E i \in LoopInputs : LoopTurn(i)

DispatchStart ==
    DispatchInit /\ ConnectIdle /\ BtIdle /\ UiIdle /\ StationIdle /\ WifiListIdle /\ StateIdle /\ AgentIdle /\ AdapterIdle /\ FlightIdle /\ SelectIdle /\ InitIdle /\ WifiErrorsIdle

SpecDispatch == DispatchStart /\ [][DispatchNext]_vars

\* C21: the loop has stopped only after Shutdown or after the command channel
\* was closed; every other event and command, also with a failing daemon call
\* or a malformed argument, lets the loop take its next turn
C21_StopsOnlyOnShutdown ==
    loop_action # "Continue" =>
        \/ loop_event.event = "CommandChannelClosed"
        \/ loop_event.event = "Command" /\ loop_event.cmd = "Shutdown"


\* ------------------------------------------------------------------------
\* Daemon calls in flight and the agent: WifiConnect, BtConnect and BtPair
\* of handle_command (src/backend/event_loop/state.rs), WifiBackend::connect
\* (src/backend/wifi_backend.rs), BluetoothBackend::connect and pair
\* (src/backend/bluetooth/backend.rs).  The daemon may ask its agent while
\* the call runs, and then answers the call only after the agent has replied
\* or after it has given up waiting.
\* ------------------------------------------------------------------------

\* the commands that start a daemon connect or pair call
FlightKinds == {"WifiConnect", "BtConnect", "BtPair"}

BtFlightKinds == {"BtConnect", "BtPair"}

\* where the daemon call of a command is awaited: WifiBackend::connect and
\* BluetoothBackend::pair hand it to a task of tokio::spawn,
\* BluetoothBackend::connect awaits device.connect() inside the handler
AwaitedIn(kind) == IF kind = "BtConnect" THEN "handler" ELSE "task"

\* no call started, no request made, the loop in next_event
FlightInit ==
    /\ flight = [k \in FlightKinds |-> "idle"]
    /\ request = [k \in FlightKinds |-> "none"]
    /\ loop_pc = "select"

\* handle_command(WifiConnect | BtConnect | BtPair): the daemon call starts;
\* the handler returns at once when a task makes the call, and stays inside
\* the backend otherwise
StartCall(kind) ==
    /\ loop_pc = "select"
    /\ flight[kind] = "idle"
    /\ kind \in BtFlightKinds => \A k \in BtFlightKinds : flight[k] \in {"idle", "returned"}
    /\ flight' = [flight EXCEPT ![kind] = "running"]
    /\ loop_pc' = IF AwaitedIn(kind) = "handler" THEN kind ELSE "select"
    /\ UNCHANGED request
    /\ UNCHANGED notFlightVars

\* the daemon invokes the agent for the call; the agent callback sends the
\* request on passphrase_rx / bt_pairing_rx and waits for the reply
DaemonAsksAgent(kind) ==
    /\ flight[kind] = "running"
    /\ request[kind] = "none"
    /\ flight' = [flight EXCEPT ![kind] = "waits_agent"]
    /\ request' = [request EXCEPT ![kind] = "queued"]
    /\ UNCHANGED loop_pc
    /\ UNCHANGED notFlightVars

\* next_event returns PassphraseRequest / BtPairingRequest and handle_event
\* stores the reply sender and tells the UI
TakeRequest(kind) ==
    /\ loop_pc = "select"
    /\ request[kind] = "queued"
    /\ request' = [request EXCEPT ![kind] = "taken"]
    /\ UNCHANGED <<flight, loop_pc>>
    /\ UNCHANGED notFlightVars

\* the UI sends its response command
UiResponds(kind) ==
    /\ request[kind] = "taken"
    /\ request' = [request EXCEPT ![kind] = "responded"]
    /\ UNCHANGED <<flight, loop_pc>>
    /\ UNCHANGED notFlightVars

\* next_event returns the response command and handle_command sends it on the
\* reply channel; a daemon that still waits goes on with the call
AnswerAgent(kind) ==
    /\ loop_pc = "select"
    /\ request[kind] = "responded"
    /\ request' = [request EXCEPT ![kind] = "answered"]
    /\ flight' = [flight EXCEPT ![kind] = IF @ = "waits_agent" THEN "running" ELSE @]
    /\ UNCHANGED loop_pc
    /\ UNCHANGED notFlightVars

\* the daemon answers the call: after its own work, or with an error once it
\* has given up waiting for the agent; a handler that awaited it returns
DaemonReturns(kind, gave_up) ==
    /\ flight[kind] = (IF gave_up THEN "waits_agent" ELSE "running")
    /\ flight' = [flight EXCEPT ![kind] = "returned"]
    /\ loop_pc' = IF loop_pc = kind THEN "select" ELSE loop_pc
    /\ UNCHANGED request
    /\ UNCHANGED notFlightVars

FlightNext ==
    \/ \E kind \in FlightKinds : StartCall(kind)
    \/ \E kind \in FlightKinds : DaemonAsksAgent(kind)
    \/ \E kind \in FlightKinds : TakeRequest(kind)
    \/ \E kind \in FlightKinds : UiResponds(kind)
    \/ \E kind \in FlightKinds : AnswerAgent(kind)
    \/ \E kind \in FlightKinds, gave_up \in BOOLEAN : DaemonReturns(kind, gave_up)

FlightStart ==
    FlightInit /\ ConnectIdle /\ BtIdle /\ UiIdle /\ StationIdle /\ WifiListIdle /\ StateIdle /\ AgentIdle /\ AdapterIdle /\ DispatchIdle /\ SelectIdle /\ InitIdle /\ WifiErrorsIdle

SpecFlight == FlightStart /\ [][FlightNext]_vars

\* C22: while a connect or pair call is in flight and its agent request or the
\* UI's response waits in a queue, the loop is in next_event and can take it
C22_LoopFreeDuringCall ==
    \A kind \in FlightKinds :
        (flight[kind] \in {"running", "waits_agent"}
            /\ request[kind] \in {"queued", "responded"}) => loop_pc = "select"


\* ------------------------------------------------------------------------
\* EventStreams::next_event and the loop that calls it (SpecSelect)
\* ------------------------------------------------------------------------

\* items ready at the same time, over all sources
MaxReady == 2

\* the three zbus property streams of next_event
PropertyStreams == {"device_powered_stream", "station_scanning_stream", "station_state_stream"}

\* the two ObjectManager signal streams of next_event
HotPlugSignals == {"iwd_interfaces_added", "iwd_interfaces_removed"}

\* the twelve branches of the select! of next_event
Sources ==
    {"bt_scan_deadline", "passphrase_rx", "bt_discovery_stream", "bt_adapter_events",
     "bt_device_events", "bt_pairing_rx", "cmd_rx"} \cup PropertyStreams \cup HotPlugSignals

\* what the branch of a source makes of the item it took: the LoopEvent it
\* returns, or "continue" when the item is dropped and the select! runs again
BranchOutcomes(s) ==
    IF s \in PropertyStreams THEN {"LoopEvent", "continue"}          \* change.get() Ok / Err
    ELSE IF s \in HotPlugSignals THEN {"LoopEvent", "continue"}      \* a Device interface / another one, or args() Err
    ELSE IF s = "cmd_rx" THEN {"Shutdown", "WifiSwitchAdapter_no_path", "BtConnect",
                               "Command", "CommandChannelClosed"}
    ELSE {"LoopEvent"}

RECURSIVE SumOver(_, _)
\* the sum of a function of numbers over a set of its arguments
SumOver(f, S) ==
    IF S = {} THEN 0
    ELSE LET x == CHOOSE y \in S : TRUE IN f[x] + SumOver(f, S \ {x})

\* nothing is ready and the loop is in next_event
SelectInit ==
    /\ pending_items = [s \in Sources |-> 0]
    /\ select_pc = "select"
    /\ select_event = [source |-> "none", kind |-> "none"]
    /\ consumed = "none"

\* a daemon, an agent callback, the UI or the clock makes an item ready
SourceDelivers(s) ==
    /\ pending_items[s] = 0
    /\ SumOver(pending_items, Sources) < MaxReady
    /\ pending_items' = [pending_items EXCEPT ![s] = @ + 1]
    /\ UNCHANGED <<select_pc, select_event, consumed>>
    /\ UNCHANGED notSelectVars

\* one firing of the select!: the branch of a ready source takes its item
next_event(s, outcome) ==
    /\ select_pc = "select"
    /\ pending_items[s] > 0
    /\ pending_items' = [pending_items EXCEPT ![s] = @ - 1]
    /\ IF outcome = "continue"
       THEN /\ consumed' = s
            /\ UNCHANGED <<select_pc, select_event>>
       ELSE /\ select_pc' = "handle_event"
            /\ select_event' = [source |-> s, kind |-> outcome]
            /\ consumed' = "none"
    /\ UNCHANGED notSelectVars

\* handle_event runs to its end and returns LoopAction::Continue
HandlerContinue ==
    /\ select_pc = "handle_event"
    /\ select_event.kind \in {"LoopEvent", "Command"}
    /\ select_pc' = "select"
    /\ consumed' = select_event.source
    /\ UNCHANGED <<pending_items, select_event>>
    /\ UNCHANGED notSelectVars

\* Shutdown and CommandChannelClosed return LoopAction::Break
HandlerBreak ==
    /\ select_pc = "handle_event"
    /\ select_event.kind \in {"Shutdown", "CommandChannelClosed"}
    /\ select_pc' = "Break"
    /\ consumed' = select_event.source
    /\ UNCHANGED <<pending_items, select_event>>
    /\ UNCHANGED notSelectVars

\* handle_wifi_switch_adapter: device_path.try_into().unwrap() on a string
\* that is no object path
HandlerPanic ==
    /\ select_pc = "handle_event"
    /\ select_event.kind = "WifiSwitchAdapter_no_path"
    /\ select_pc' = "Panic"
    /\ UNCHANGED <<pending_items, select_event, consumed>>
    /\ UNCHANGED notSelectVars

\* handle_command(BtConnect): bt_backend.connect(&path).await, the handler
\* waits for the daemon
HandlerAwaitsBtConnect ==
    /\ select_pc = "handle_event"
    /\ select_event.kind = "BtConnect"
    /\ select_pc' = "device.connect"
    /\ UNCHANGED <<pending_items, select_event, consumed>>
    /\ UNCHANGED notSelectVars

\* the daemon answers Device.Connect (or gives up); the handler returns Continue
BtConnectReturns ==
    /\ select_pc = "device.connect"
    /\ select_pc' = "select"
    /\ consumed' = select_event.source
    /\ UNCHANGED <<pending_items, select_event>>
    /\ UNCHANGED notSelectVars

SelectNext ==
    \/ \E s \in Sources : SourceDelivers(s)
    \/ \E s \in Sources : \E outcome \in BranchOutcomes(s) : next_event(s, outcome)
    \/ HandlerContinue
    \/ HandlerBreak
    \/ HandlerPanic
    \/ HandlerAwaitsBtConnect
    \/ BtConnectReturns

SelectStart == SelectInit /\ ConnectIdle /\ BtIdle /\ UiIdle /\ StationIdle /\ WifiListIdle /\ StateIdle /\ AgentIdle /\ AdapterIdle /\ DispatchIdle /\ FlightIdle /\ InitIdle /\ WifiErrorsIdle

\* tokio's select! starts polling at a branch chosen at random, so a branch
\* that is ready at infinitely many calls is taken (strong fairness per
\* source); a handler that can run does run, and the daemon answers or times
\* out a call.  Nothing obliges a source to deliver.
SelectFairness ==
    /\ \A s \in Sources : SF_vars(\E outcome \in BranchOutcomes(s) : next_event(s, outcome))
    /\ WF_vars(HandlerContinue)
    /\ WF_vars(HandlerBreak)
    /\ WF_vars(HandlerPanic)
    /\ WF_vars(HandlerAwaitsBtConnect)
    /\ WF_vars(BtConnectReturns)

SpecSelect == SelectStart /\ [][SelectNext]_vars /\ SelectFairness

\* C26: an item that is ready on a source is eventually taken by next_event
\* and its handling finished (or the item dropped by its branch), unless the
\* loop was ended by Shutdown or by the closing of the command channel
C26_NoSourceStarved ==
    \A s \in Sources :
        (pending_items[s] > 0) ~> (consumed = s \/ select_pc = "Break")


\* ------------------------------------------------------------------------
\* init (event_loop/mod.rs) and the loop turns after it (SpecInit)
\* ------------------------------------------------------------------------

\* wireless devices iwd exports at startup, at most
MaxIwdDevices == 1

\* The world init finds.  dbus: the system bus can be reached.  iwd: the
\* wireless daemon is on the bus; devices: how many devices it exports;
\* iwd_agent: what AgentManager.RegisterAgent does.  bluez: the Bluetooth
\* daemon is on the bus; bt_agent: its RegisterAgent succeeds; bt_adapter: it
\* has a default adapter.
Worlds ==
    {e \in [dbus : BOOLEAN, iwd : BOOLEAN, devices : 0..MaxIwdDevices,
            iwd_agent : {"registered", "no_manager", "refused"},
            bluez : BOOLEAN, bt_agent : BOOLEAN, bt_adapter : BOOLEAN] :
        /\ (~e.iwd => e.devices = 0)
        /\ (e.devices = 0 => e.iwd_agent = "registered")
        /\ (~e.bluez => ~e.bt_agent /\ ~e.bt_adapter)}

\* the subsystem's daemon or adapter is missing
WifiMissing(e) == ~e.iwd \/ e.devices = 0
BtMissing(e) == ~e.bluez \/ ~e.bt_adapter

\* find_all_iwd_devices at startup: the devices iwd exports, first-discovered
\* first, or an error when the daemon cannot be asked (init then takes the
\* empty inventory)
find_all_at_init(e) == IF e.iwd THEN [i \in 1..e.devices |-> i] ELSE <<>>

\* init, agent registration with iwd: a failure is reported as WifiError
\* and nothing else changes
register_iwd_agent(e) ==
    IF e.iwd_agent = "registered" THEN <<>>
    ELSE IF e.iwd_agent = "refused"
        THEN <<Ev("WifiError", "Cannot register password agent. Connecting to secured networks may fail.")>>
        ELSE <<Ev("WifiError", "Cannot connect to iwd AgentManager. Connecting to secured networks may fail.")>>

\* BluetoothBackend::new: Session::new().await? and
\* session.register_agent(agent).await? return the error; a missing default
\* adapter is reported and leaves adapter: None in a backend that is returned
BluetoothBackend_new(e) ==
    IF ~e.bluez \/ ~e.bt_agent
    THEN [ok |-> FALSE, adapter |-> FALSE, events |-> <<>>]
    ELSE [ok |-> TRUE, adapter |-> e.bt_adapter,
          events |-> IF e.bt_adapter THEN <<>>
                     ELSE <<Ev("BtError", "No Bluetooth adapter")>>]

\* the fields of EventStreams that exist whatever init finds
AlwaysLive == {"cmd_rx", "passphrase_rx", "bt_device_events"}

\* before init
InitInit ==
    /\ world \in Worlds
    /\ init_pc = "start"
    /\ state_wifi = 0
    /\ state_bt = "None"
    /\ live_sources = {}
    /\ startup_evt = <<>>
    /\ last_turn = [kind |-> "none", name |-> "none", wifi_none |-> TRUE, bt_off |-> TRUE,
                    daemon_call |-> FALSE, state_changed |-> FALSE]

\* init: Err when the system bus cannot be reached, else Ok with the
\* backends and streams it could build
init ==
    /\ init_pc = "start"
    /\ IF ~world.dbus
       THEN /\ init_pc' = "Err"
            /\ UNCHANGED <<state_wifi, state_bt, live_sources, startup_evt>>
       ELSE \E device_ok, powered, station_ok, hotplug_ok, bt_powered \in BOOLEAN :
            \E initial \in (IF find_all_at_init(world) = <<>> THEN {0}
                            ELSE Elements(find_all_at_init(world))) :
            LET infos == find_all_at_init(world)
                bt == BluetoothBackend_new(world)
            IN  /\ init_pc' = "Ok"
                /\ state_wifi' = initial
                /\ state_bt' = IF ~bt.ok THEN "None"
                               ELSE IF bt.adapter THEN "adapter" ELSE "no_adapter"
                /\ startup_evt' =
                      <<WifiDevicesEvent(infos, initial)>>
                      \o (IF infos # <<>> THEN register_iwd_agent(world) ELSE <<>>)
                      \o (IF initial # 0
                             THEN send_wifi_initial_state(device_ok, powered, station_ok)
                             ELSE <<>>)
                      \o (IF bt.ok THEN bt.events ELSE <<Ev("BtError", "Bluetooth: error")>>)
                      \o (IF bt.ok /\ bt.adapter THEN <<Ev("BtPowered", bt_powered)>> ELSE <<>>)
                /\ live_sources' =
                      AlwaysLive
                      \cup (IF bt.ok THEN {"bt_pairing_rx"} ELSE {})
                      \cup (IF bt.ok /\ bt.adapter THEN {"bt_adapter_events"} ELSE {})
                      \cup (IF initial # 0 /\ device_ok THEN {"device_powered_stream"} ELSE {})
                      \cup (IF initial # 0 /\ station_ok
                               THEN {"station_scanning_stream", "station_state_stream"} ELSE {})
                      \cup (IF hotplug_ok THEN HotPlugSignals ELSE {})
    /\ UNCHANGED <<world, last_turn>>
    /\ UNCHANGED notInitVars

\* the caller of init: it tells the UI which subsystems are available and
\* enters the loop
ReportAvailability ==
    /\ init_pc = "Ok"
    /\ init_pc' = "loop"
    /\ startup_evt' = startup_evt \o <<Ev("WifiAvailable", state_wifi # 0),
                                       Ev("BtAvailable", state_bt = "adapter")>>
    /\ UNCHANGED <<world, state_wifi, state_bt, live_sources, last_turn>>
    /\ UNCHANGED notInitVars

\* the commands of the two subsystems
WifiCommands ==
    {"WifiScan", "WifiConnect", "WifiDisconnect", "WifiForget", "WifiForgetKnown",
     "WifiSetPowered", "WifiSwitchAdapter"}
BtCommands ==
    {"BtScan", "BtStopScan", "BtConnect", "BtDisconnect", "BtPair", "BtRemove",
     "BtSetAlias", "BtSetTrusted", "BtSetPowered", "BtSetDiscoverable"}

\* what a loop turn leaves behind
Turn(kind, name, daemon_call, state_changed) ==
    [kind |-> kind, name |-> name, wifi_none |-> state_wifi = 0,
     bt_off |-> state_bt # "adapter", daemon_call |-> daemon_call,
     state_changed |-> state_changed]

\* handle_command for a WiFi command other than WifiSwitchAdapter:
\* `if let Some(ref w) = self.wifi { w.<call>().await }`
WifiCommand(cmd) ==
    /\ init_pc = "loop"
    /\ cmd \in WifiCommands \ {"WifiSwitchAdapter"}
    /\ last_turn' = Turn("Command", cmd, state_wifi # 0, FALSE)
    /\ UNCHANGED <<world, init_pc, state_wifi, state_bt, live_sources, startup_evt>>
    /\ UNCHANGED notInitVars

\* handle_command(WifiSwitchAdapter { device_path }): the backend and the
\* three device-scoped streams are built for the path, whatever self.wifi is;
\* a string that is no object path panics
WifiSwitchAdapterCommand(device, is_path) ==
    /\ init_pc = "loop"
    /\ IF ~is_path
       THEN /\ init_pc' = "Panic"
            /\ last_turn' = Turn("Command", "WifiSwitchAdapter", state_wifi # 0, FALSE)
            /\ UNCHANGED <<state_wifi, live_sources>>
       ELSE \E device_ok, station_ok \in BOOLEAN :
            /\ state_wifi' = device
            /\ live_sources' =
                  (live_sources \ PropertyStreams)
                  \cup (IF device_ok THEN {"device_powered_stream"} ELSE {})
                  \cup (IF station_ok
                           THEN {"station_scanning_stream", "station_state_stream"} ELSE {})
            /\ last_turn' = Turn("Command", "WifiSwitchAdapter", TRUE, TRUE)
            /\ UNCHANGED init_pc
    /\ UNCHANGED <<world, state_bt, startup_evt>>
    /\ UNCHANGED notInitVars

\* handle_command for a Bluetooth command: `if let Some(ref bt_backend) =
\* self.bt`, and every method of the backend returns at once when its adapter
\* is None.  BtScan sets the discovery stream and the deadline unless a scan
\* runs (on: start_scan succeeds, resp. the powered argument), BtStopScan and
\* BtSetPowered(false) take them, BtSetPowered sets or takes the adapter
\* stream.
BtCommand(cmd, on) ==
    /\ init_pc = "loop"
    /\ cmd \in BtCommands
    /\ LET usable == state_bt = "adapter"
           scanning == "bt_discovery_stream" \in live_sources
           after ==
               IF cmd = "BtScan" /\ ~scanning /\ usable /\ on
                   THEN live_sources \cup {"bt_discovery_stream", "bt_scan_deadline"}
               ELSE IF cmd = "BtStopScan"
                   THEN live_sources \ {"bt_discovery_stream", "bt_scan_deadline"}
               ELSE IF cmd = "BtSetPowered" /\ ~on
                   THEN live_sources \ {"bt_discovery_stream", "bt_scan_deadline", "bt_adapter_events"}
               ELSE IF cmd = "BtSetPowered" /\ usable
                   THEN live_sources \cup {"bt_adapter_events"}
               ELSE live_sources
       IN /\ live_sources' = after
          /\ last_turn' = Turn("Command", cmd,
                               usable /\ (cmd = "BtStopScan" => scanning)
                                      /\ (cmd = "BtScan" => ~scanning),
                               after # live_sources)
    /\ UNCHANGED <<world, init_pc, state_wifi, state_bt, startup_evt>>
    /\ UNCHANGED notInitVars

\* next_event returns a LoopEvent of a source: a field that is None awaits
\* std::future::pending() and is never ready
SourceYields(s) ==
    /\ init_pc = "loop"
    /\ s \in live_sources \ {"cmd_rx"}
    /\ last_turn' = Turn("LoopEvent", s, FALSE, FALSE)
    /\ UNCHANGED <<world, init_pc, state_wifi, state_bt, live_sources, startup_evt>>
    /\ UNCHANGED notInitVars

InitNext ==
    \/ init
    \/ ReportAvailability
    \/ \E cmd \in WifiCommands \ {"WifiSwitchAdapter"} : WifiCommand(cmd)
    \/ \E device \in 1..MaxIwdDevices : \E is_path \in BOOLEAN :
          WifiSwitchAdapterCommand(device, is_path)
    \/ \E cmd \in BtCommands : \E on \in BOOLEAN : BtCommand(cmd, on)
    \/ \E s \in Sources : SourceYields(s)

InitStart == InitInit /\ ConnectIdle /\ BtIdle /\ UiIdle /\ StationIdle /\ WifiListIdle /\ StateIdle /\ AgentIdle /\ AdapterIdle /\ DispatchIdle /\ FlightIdle /\ SelectIdle /\ WifiErrorsIdle

SpecInit == InitStart /\ [][InitNext]_vars

\* an event of a type and argument has been sent to the UI
Sent(type, arg) ==
    \E i \in DOMAIN startup_evt : startup_evt[i].type = type /\ startup_evt[i].arg = arg

\* C28: with a subsystem's daemon or adapter missing at startup (and the
\* system bus there) init returns Ok with that subsystem disabled, the UI gets
\* the availability event of the subsystem, every later command of the
\* subsystem is a no-op, and no absent source yields a LoopEvent
C28_MissingSubsystemDisabled ==
    /\ (world.dbus /\ init_pc # "start") => init_pc # "Err"
    /\ (init_pc \in {"Ok", "loop"} /\ last_turn.kind = "none") =>
          /\ WifiMissing(world) => state_wifi = 0
          /\ BtMissing(world) => state_bt # "adapter"
    /\ init_pc = "loop" =>
          /\ WifiMissing(world) => Sent("WifiAvailable", FALSE)
          /\ BtMissing(world) => Sent("BtAvailable", FALSE)
    /\ (last_turn.kind = "Command" /\ last_turn.name \in WifiCommands
            /\ WifiMissing(world) /\ last_turn.wifi_none) =>
          (~last_turn.daemon_call /\ ~last_turn.state_changed /\ init_pc = "loop")
    /\ (last_turn.kind = "Command" /\ last_turn.name \in BtCommands /\ BtMissing(world)) =>
          (~last_turn.daemon_call /\ ~last_turn.state_changed /\ init_pc = "loop")
    /\ (last_turn.kind = "LoopEvent" /\ WifiMissing(world) /\ state_wifi = 0) =>
          last_turn.name \notin PropertyStreams
    /\ (last_turn.kind = "LoopEvent" /\ BtMissing(world)) =>
          last_turn.name \notin {"bt_discovery_stream", "bt_adapter_events", "bt_scan_deadline"}

\* C29: when only the registration of the password agent or of the pairing
\* agent fails, init reports a warning and the subsystem is enabled: its
\* backend exists and its commands reach the daemon
C29_AgentFailureIsWarning ==
    /\ (init_pc \in {"Ok", "loop"} /\ world.devices > 0 /\ world.iwd_agent # "registered") =>
          /\ last_turn.kind = "none" => state_wifi # 0
          /\ \E i \in DOMAIN startup_evt : startup_evt[i].type = "WifiError"
          /\ (last_turn.kind = "Command" /\ last_turn.name \in WifiCommands) =>
                last_turn.daemon_call
    /\ (init_pc \in {"Ok", "loop"} /\ world.bluez /\ ~world.bt_agent) =>
          /\ state_bt # "None"
          /\ \E i \in DOMAIN startup_evt : startup_evt[i].type = "BtError"
          /\ (last_turn.kind = "Command" /\ last_turn.name \in BtCommands
                  /\ last_turn.name \notin {"BtScan", "BtStopScan"} /\ world.bt_adapter) =>
                last_turn.daemon_call


\* ------------------------------------------------------------------------
\* Failed WiFi daemon operations and the error they report (SpecWifiErrors)
\* ------------------------------------------------------------------------

\* the error names iwd answers with, and one the mapping does not know
ErrorNames ==
    {<<"Aborted">>, <<"Canceled">>, <<"InvalidFormat">>, <<"InvalidArguments">>,
     <<"Authentication", "Failed">>, <<"NotConnected">>, <<"Busy">>, <<"NotFound">>,
     <<"NoAgent">>, <<"Failed">>, <<"NotSupported">>}

\* zbus::Error as displayed by to_string(): "<error name>: <detail>"; the
\* detail is free text and can itself hold one of the names
ZbusErrors ==
    {<<"net.connman.iwd.">> \o name \o <<": ">> \o detail :
        name \in ErrorNames, detail \in ErrorNames \cup {<<"detail">>}}

\* the WifiBackend operations that call the daemon and can fail
WifiOperations == {"connect", "disconnect", "scan", "forget", "set_powered"}

\* the BackendEvent::Error a failed operation sends
ErrorReport(op, e) ==
    Ev("Error",
       IF op = "connect" THEN format_iwd_error(e)
       ELSE IF op = "disconnect" THEN <<"Disconnect: ">> \o e
       ELSE IF op = "scan" THEN <<"Scan: ">> \o e
       ELSE IF op = "forget" THEN <<"Forget: ">> \o e
       ELSE <<"Power: ">> \o e)

\* no operation has failed
WifiErrorsInit ==
    /\ wifi_op = "none"
    /\ wifi_op_error = <<>>
    /\ wifi_op_evt = Ev("none", <<>>)

\* the daemon answers the call of an operation with an error
OperationFails(op, e) ==
    /\ wifi_op' = op
    /\ wifi_op_error' = e
    /\ wifi_op_evt' = ErrorReport(op, e)
    /\ UNCHANGED notWifiErrorVars

WifiErrorsNext ==
    \E op \in WifiOperations : \E e \in ZbusErrors : OperationFails(op, e)

WifiErrorsStart == WifiErrorsInit /\ ConnectIdle /\ BtIdle /\ UiIdle /\ StationIdle /\ WifiListIdle /\ StateIdle /\ AgentIdle /\ AdapterIdle /\ DispatchIdle /\ FlightIdle /\ SelectIdle /\ InitIdle

SpecWifiErrors == WifiErrorsStart /\ [][WifiErrorsNext]_vars

\* the taxonomy in its fixed order: the patterns of a row and its message
Taxonomy ==
    << [patterns |-> {<<"Aborted">>, <<"Canceled">>}, message |-> <<"Connection cancelled">>],
       [patterns |-> {<<"InvalidFormat">>, <<"InvalidArguments">>}, message |-> <<"Invalid password">>],
       [patterns |-> {<<"Authentication", "Failed">>}, message |-> <<"Wrong password">>],
       [patterns |-> {<<"NotConnected">>}, message |-> <<"Not connected">>],
       [patterns |-> {<<"Busy">>}, message |-> <<"Device is busy, try again">>],
       [patterns |-> {<<"NotFound">>}, message |-> <<"Network not found">>],
       [patterns |-> {<<"NoAgent">>}, message |-> <<"No agent registered">>],
       [patterns |-> {<<"Failed">>}, message |-> <<"Connection failed">>] >>

\* a row of the taxonomy matches a string
RowMatches(i, s) == \E pat \in Taxonomy[i].patterns : Contains(s, pat)

\* the message of the first row that matches, the prefixed string if none does
TaxonomyMessage(s) ==
    IF \E i \in DOMAIN Taxonomy : RowMatches(i, s)
    THEN Taxonomy[CHOOSE i \in DOMAIN Taxonomy :
                      RowMatches(i, s) /\ \A j \in 1..(i - 1) : ~RowMatches(j, s)].message
    ELSE <<"Connection failed: ">> \o s

\* C31: a failed WiFi daemon operation (connect, disconnect, scan, forget,
\* power) reports the message of the first matching row of the taxonomy, or
\* the error behind "Connection failed: " when no row matches
C31_ErrorsThroughMapping ==
    wifi_op # "none" => wifi_op_evt = Ev("Error", TaxonomyMessage(wifi_op_error))

====
